---------------------------- MODULE Spec2Model ----------------------------
(***************************************************************************)
(* Frame-stepped model of the aim trainer's gameplay logic:                *)
(*   - the scenario sequencer of main.rs (manage_scenarios),               *)
(*   - the shot cooldown of main.rs (click_targets),                       *)
(*   - the TargetPlugin frame loop of target.rs (hit detection, health,    *)
(*     lifetime, spawner, score tracker),                                  *)
(*   - the calibration session of calibration_session.rs,                  *)
(*   - frames of main.rs with the window, the player or the camera gone,   *)
(*   - frames of main.rs that run manage_scenarios and click_targets,      *)
(*   - update_target_movement and update_target_health of target.rs,       *)
(*   - the live tuning of the curve in oldCalibrationFile.rs,              *)
(*   - the sensitivity curve of sensitivity.rs and the frame that samples  *)
(*     the mouse, evaluates the curve and turns the camera (input.rs,      *)
(*     sensitivity.rs, camera.rs),                                         *)
(*   - the movement of the arena's targets in main.rs,                     *)
(*   - the CalibrationSystem of oldCalibrationFile.rs: its profiles and    *)
(*     its calibration sessions.                                           *)
(* Every subsystem has its own specification (SpecSeq, SpecClick,          *)
(* SpecPlay, SpecTally, SpecTarget, SpecHit, SpecHealth, SpecCalib,        *)
(* SpecGuard, SpecMove, SpecTune, SpecEdit, SpecSens, SpecCam, SpecBuffer, *)
(* SpecArena, SpecCalsys, SpecSession); the variables of the other         *)
(* subsystems stay at their initial values there.                          *)
(*                                                                         *)
(* Time is counted in ticks, TicksPerSecond of them to a second; a frame's *)
(* time.delta() is a whole number of ticks in 0..MaxDelta.  Timers are the *)
(* engine's Timer (std Duration arithmetic, so integer arithmetic is       *)
(* exact): elapsed time, the finished flag and the just-finished flag.     *)
(***************************************************************************)
EXTENDS Integers, Sequences, FiniteSets, TLC

\* ------------------------------------------------------------------ bounds
\* ticks per second of the sequencer's clock
TicksPerSecond == 2
\* largest frame delta, in ticks
MaxDelta == 2

\* ticks per 0.1 s of the shot stopwatch's clock
TicksPerTenth == 2
\* largest frame delta of the click frames, in ticks
MaxClickDelta == 3
\* the shot stopwatch is followed up to this many ticks
MaxStopwatch == 7
\* Points.value is followed in -MaxPoints..MaxPoints
MaxPoints == 3

\* largest frame delta of the TargetPlugin frames, in seconds
MaxTargetDelta == 1
\* largest ray intersection distance drawn for a target
MaxDist == 2
\* shots followed by the score tracker
MaxShots == 3

\* targets in the world of the hit-detection checks
MaxHitTargets == 3

\* the movement bounds are the box from 0 to MaxCoord on every axis
MaxCoord == 2
\* largest speed of a moving target on an axis, in units per second
MaxSpeed == 2
\* largest frame delta of the movement frames, in seconds
MaxMoveDelta == 2

\* live tuning is followed while min_sens is at most MaxMinSens tenths,
\* max_sens at most MaxMaxSens tenths, range within MaxRangeDrift of its
\* default and growth_base within MaxGrowthDrift hundredths of its default
MaxMinSens == 12
MaxMaxSens == 75
MaxRangeDrift == 5
MaxGrowthDrift == 1

\* the curve is evaluated at the speeds 0..MaxInputSpeed, for offset in
\* 0..MaxOffset, range in 0..MaxRange, min_sens in 1..MaxCurveMin, max_sens
\* in 1..MaxCurveMax and growth_base in 1/2, 2/2, .. MaxGrowthHalves/2
MaxInputSpeed == 6
MaxOffset == 1
MaxRange == 3
MaxCurveMin == 2
MaxCurveMax == 3
MaxGrowthHalves == 4

\* in the frames that run manage_scenarios and click_targets together the
\* stopwatch stays within MaxPlayStopwatch ticks
MaxPlayStopwatch == 20

\* a mouse motion event moves the pointer by up to MaxMouseDelta pixels along
\* one axis, a frame brings up to MaxEvents of them, the buffer is followed
\* up to MaxSamples samples and the camera up to MaxAngle units of rotation
MaxMouseDelta == 1
MaxEvents == 2
MaxSamples == 2
MaxAngle == 2

\* update_target_health on its own is called with up to MaxHealthTargets
\* targets of health 1..MaxHealth and up to MaxHitEvents hit events of damage
\* 0..MaxDamage
MaxHealthTargets == 2
MaxHealth == 2
MaxHitEvents == 1
MaxDamage == 2

\* update_target_movements of main.rs: grid points per metre, the longest
\* frame in ticks, the frames followed and the ticks a movement timer counts
UnitsPerMetre == 10
MaxArenaDelta == 2
MaxArenaFrames == 2
MaxArenaTimer == 6

\* the accepted shots counted
MaxTally == 4

\* CalibrationSystem: the results kept in calibration_history, the profiles
\* of an imported file
MaxHistory == 1
MaxImport == 2

\* set_from_game is called with a game sensitivity of up to MaxGameSens tenths
MaxGameSens == 3

\* process_mouse_input on a buffer that is nearly full: the frames followed
\* and the events of a frame
MaxBufferFrames == 2
MaxBufferEvents == 2

\* --------------------------------------------------------------- constants
\* main.rs:27  const SCENARIO_DURATION: f32 = 30.0
SCENARIO_DURATION == 30
\* main.rs:28  const SCENARIO_DELAY: f32 = 5.0
SCENARIO_DELAY == 5
\* main.rs:223 setup spawns 10 random targets
SetupTargets == 10
\* main.rs:614 / main.rs:694  DynamicClicking keeps up to 3 targets
DynamicMax == 3

\* target.rs:420  max_targets: 5
MAX_TARGETS == 5
\* target.rs:419  spawn_timer: Timer::new(Duration::from_secs(1), Repeating)
SPAWN_PERIOD == 1
\* target.rs:425  target_lifetime_secs: Some(5.0)
TARGET_LIFETIME == 5
\* target.rs:22  health: 1
DEFAULT_HEALTH == 1
\* target.rs:23  points: 100
DEFAULT_POINTS == 100
\* target.rs:369  damage: 1
HIT_DAMAGE == 1

\* oldCalibrationFile.rs:1405  min_sens: 0.6, in tenths
OLD_MIN_SENS == 6
\* oldCalibrationFile.rs:1406  max_sens: 7.0, in tenths
OLD_MAX_SENS == 70
\* oldCalibrationFile.rs:1407  range: 40.0
OLD_RANGE == 40
\* oldCalibrationFile.rs:1408  growth_base: 1.05, in hundredths
OLD_GROWTH_BASE == 105
\* oldCalibrationFile.rs:1939 / 1942  min_sens changes by 0.1, in tenths
MIN_SENS_STEP == 1
\* oldCalibrationFile.rs:1942  min_sens is kept at 0.1 or above, in tenths
MIN_SENS_FLOOR == 1
\* oldCalibrationFile.rs:1948 / 1951  max_sens changes by 0.5, in tenths
MAX_SENS_STEP == 5
\* oldCalibrationFile.rs:1959 / 1962  range changes by 5.0 and is kept at 5.0 or above
RANGE_STEP == 5
\* oldCalibrationFile.rs:1968 / 1971  growth_base changes by 0.01, in hundredths
GROWTH_STEP == 1
\* oldCalibrationFile.rs:1971  growth_base is kept at 1.0 or above, in hundredths
GROWTH_FLOOR == 100

\* calibration_session.rs:26  total_scenarios: 5
\* input.rs: MouseInputBuffer::default().max_samples
MAX_SAMPLES == 100
\* camera.rs, line 78: the pitch limit of 89.9 degrees, in whole units of
\* camera.sensitivity * 0.002 = 0.0002 radians
PITCH_LIMIT == 7845

\* main.rs: the arena, in metres
ARENA_DEPTH == 200
ARENA_HEIGHT == 50

\* oldCalibrationFile.rs: CalibrationProfile::default().dpi
DEFAULT_DPI == 800

TOTAL_SCENARIOS == 5
\* calibration_session.rs:27  Timer::from_seconds(30.0, TimerMode::Once)
CALIBRATION_SCENARIO_SECS == 30

VARIABLES
    scenario_state,   \* main.rs ScenarioState resource
    seq_targets,      \* number of Target entities of the main.rs world
    seq_out,          \* the lines manage_scenarios printed in the last frame
    seq_hist,         \* history of the current run (clock, phases)
    shoot_tracker,    \* main.rs ShootTracker.stopwatch: elapsed ticks
    points,           \* main.rs Points.value
    click_hist,       \* history of the shots click_targets accepted
    targets,          \* target.rs: the Target entities, by entity slot
    spawner,          \* target.rs: the TargetSpawner's spawn_timer
    score_tracker,    \* target.rs ScoreTracker resource
    hit_events,       \* TargetHitEvents sent in the last frame
    destroyed_events, \* TargetDestroyedEvents sent in the last frame
    frame_in,         \* inputs of the last TargetPlugin frame
    shot_hist,        \* history of the shots: fired and hitting
    schedule,         \* target.rs: where the build's schedule runs the unordered systems
    hit_in,           \* inputs of the last detect_target_hits call checked alone
    calibration_state, \* calibration_session.rs CalibrationState resource
    results_out,      \* the lines output_results_and_exit has written to stdout
    exit_status,      \* whether the process has exited, and its exit code
    calib_hist,       \* history of the session: expirations of the scenario timer
    calib_order,      \* whether the schedule runs output_results_and_exit first
    cursor,           \* main.rs: the window's cursor options and FpsController.enable_input
    panicked,         \* "none", or the place where a system panicked
    guard_in,         \* the entities and inputs of the last frame run with entities missing
    movement,         \* target.rs: a target's Transform.translation and TargetMovement
    move_hist,        \* history of the target's movement: bounces, last frame
    active_profile,   \* oldCalibrationFile.rs: the active SensitivityProfile
    sens_in,          \* sensitivity.rs: the CurveParameters and the two speeds evaluated
    sens_out,         \* the multipliers calculate_sensitivity_multiplier returned
    mouse_buffer,     \* input.rs: the MouseInputBuffer resource
    mouse_unread,     \* MouseMotion events process_mouse_input has not read yet
    fps_camera,       \* camera.rs: yaw and pitch of the FpsCamera
    cam_hist,         \* what the last frame did to the camera
    health_in,        \* update_target_health on its own: the call and its outcome
    arena_target,     \* main.rs: a moving target's Transform.translation and TargetMovement
    arena_in,         \* the frames update_target_movements ran and the inputs of the last one
    shot_tally,       \* the shots click_targets accepted: on a target, on anything else
    calibration_system,  \* oldCalibrationFile.rs: the CalibrationSystem resource
    calsys_out,       \* the last CalibrationSystem method called, its argument and what it returned
    buffer_in         \* process_mouse_input on a filled buffer: the frames run, the events read in the last

seqVars == <<scenario_state, seq_targets, seq_out, seq_hist>>

clickVars == <<shoot_tracker, points, click_hist>>

targetVars == <<targets, spawner, score_tracker, hit_events,
                destroyed_events, frame_in, shot_hist, schedule, hit_in>>

calibVars == <<calibration_state, results_out, exit_status, calib_hist,
               calib_order>>

vars == <<scenario_state, seq_targets, seq_out, seq_hist,
          shoot_tracker, points, click_hist,
          targets, spawner, score_tracker, hit_events,
          destroyed_events, frame_in, shot_hist, schedule, hit_in,
          calibration_state, results_out, exit_status, calib_hist,
          calib_order, cursor, panicked, guard_in, movement, move_hist,
          active_profile, sens_in, sens_out, mouse_buffer, mouse_unread,
          fps_camera, cam_hist, health_in,
          arena_target, arena_in,
          shot_tally,
          calibration_system, calsys_out,
          buffer_in>>

guardVars == <<cursor, panicked, guard_in>>

moveVars == <<movement, move_hist>>

tuneVars == <<active_profile>>

sensVars == <<sens_in, sens_out>>

\* the variables of the subsystems that have a specification of their own
camVars == <<mouse_buffer, mouse_unread, fps_camera, cam_hist>>

\* the variables of the last sections, and for each section the others'
lastVars == <<arena_target, arena_in, shot_tally, calibration_system, calsys_out, buffer_in>>

arenaRest == <<shot_tally, calibration_system, calsys_out, buffer_in>>

tallyRest == <<arena_target, arena_in, calibration_system, calsys_out, buffer_in>>

calsysRest == <<arena_target, arena_in, shot_tally, buffer_in>>

bufferRest == <<arena_target, arena_in, shot_tally, calibration_system, calsys_out>>

lateVars == <<camVars, health_in, lastVars>>

auxVars == <<guardVars, moveVars, tuneVars, sensVars, lateVars>>

\* ------------------------------------------------------------------ Timer
\* Timer::from_seconds(d, TimerMode::Once) / Timer::reset
NewTimer == [elapsed |-> 0, finished |-> FALSE, just |-> FALSE]

TimerReset(t) == NewTimer

\* Timer::tick for TimerMode::Once: a finished timer only clears its
\* just-finished flag; otherwise elapsed advances and is clamped at the
\* duration (the overshoot of the last frame is dropped).
TimerTick(t, delta, dur) ==
    IF t.finished
    THEN [t EXCEPT !.just = FALSE]
    ELSE IF t.elapsed + delta >= dur
         THEN [elapsed |-> dur, finished |-> TRUE, just |-> TRUE]
         ELSE [elapsed |-> t.elapsed + delta, finished |-> FALSE, just |-> FALSE]

\* the part of a frame's delta a tick drops when the timer finishes
TimerLost(t, delta, dur) ==
    IF ~t.finished /\ t.elapsed + delta >= dur THEN t.elapsed + delta - dur ELSE 0

\* ------------------------------------------------------- scenario sequencer
\* mutant: the scenario timer built with the delay constant
ScenarioDurationTicks_AsDelay == SCENARIO_DELAY * TicksPerSecond

ScenarioDurationTicks == SCENARIO_DURATION * TicksPerSecond
ScenarioDelayTicks == SCENARIO_DELAY * TicksPerSecond

\* ScenarioState::default().scenarios
Scenarios ==
    << "DynamicClicking", "StaticClicking", "LinearClicking",
       "PreciseTracking", "ReactiveTracking", "ControlTracking",
       "SpeedSwitching", "EvasiveSwitching", "StabilitySwitching" >>

NumScenarios == Len(Scenarios)

\* spawn_scenario_targets: number of targets each scenario spawns
ScenarioTargetCount(ty) ==
    CASE ty = "StaticClicking" -> 5
      [] ty = "DynamicClicking" -> 3
      [] ty = "LinearClicking" -> 3
      [] ty = "PreciseTracking" -> 1
      [] ty = "ReactiveTracking" -> 1
      [] ty = "ControlTracking" -> 1
      [] ty = "SpeedSwitching" -> 3
      [] ty = "EvasiveSwitching" -> 3
      [] ty = "StabilitySwitching" -> 3

\* ScenarioState::default()
ScenarioStateDefault ==
    [ current_type |-> "None",
      scenario_timer |-> NewTimer,
      delay_timer |-> NewTimer,
      current_index |-> 0,
      is_active |-> FALSE,
      has_started |-> FALSE ]

\* history of the current run: clock is the simulated time that has passed
\* since the frame of the accepted start action, first is that frame's own
\* delta, lost is the overshoot the timers dropped when they finished,
\* actives and delays count the phases entered, done is set when the run has
\* reported completion, restarted tells that the run was started after an
\* earlier run had completed
SeqHistInit ==
    [ clock |-> 0, first |-> 0, lost |-> 0, actives |-> 0, delays |-> 0,
      done |-> FALSE, restarted |-> FALSE ]

\* fps_controller_setup: ShootTracker { stopwatch: Stopwatch::new() }, and
\* Points::default()
ClickInit ==
    /\ shoot_tracker = 0
    /\ points = 0
    /\ click_hist = [since |-> 0, gap |-> 0, shots |-> 0, last |-> "none"]

SeqInit ==
    /\ scenario_state = ScenarioStateDefault
    /\ seq_targets = SetupTargets
    /\ seq_out = << >>
    /\ seq_hist = SeqHistInit

\* phase of the sequencer, read off the two flags
Phase(s) ==
    IF ~s.has_started THEN "idle"
    ELSE IF s.is_active THEN "active" ELSE "delay"

\* mutant: the start action accepted while a run is in progress
StartAccepted_Always(s, space) == space

\* manage_scenarios, line 499: the start action is accepted
StartAccepted(s, space) == space /\ ~s.has_started

\* mutant: the start action does not reset current_index
AfterStart_KeepIndex(s) ==
    [s EXCEPT !.has_started = TRUE,
              !.is_active = FALSE,
              !.delay_timer = TimerReset(s.delay_timer)]

\* manage_scenarios, lines 500-503
AfterStart(s) ==
    [s EXCEPT !.has_started = TRUE,
              !.current_index = 0,
              !.is_active = FALSE,
              !.delay_timer = TimerReset(s.delay_timer)]

\* manage_scenarios, line 525
HasMore(s) == s.current_index < NumScenarios

\* mutant: the scenario timer is not reset
StartScenario_KeepTimer(s) ==
    [s EXCEPT !.current_type = Scenarios[s.current_index + 1],
              !.is_active = TRUE]

\* manage_scenarios, lines 526-529: the delay expired and a scenario remains
StartScenario(s) ==
    [s EXCEPT !.current_type = Scenarios[s.current_index + 1],
              !.is_active = TRUE,
              !.scenario_timer = TimerReset(s.scenario_timer)]

\* mutant: the completed run is left active
Complete_StaysActive(s) ==
    [s EXCEPT !.has_started = FALSE, !.current_type = "None", !.is_active = TRUE]

\* manage_scenarios, lines 537-538: the delay expired and nothing remains
Complete(s) ==
    [s EXCEPT !.has_started = FALSE, !.current_type = "None"]

\* mutant: the expiry of the last scenario advances the index once more
ActiveExpired_PastEnd(s) ==
    [s EXCEPT !.is_active = FALSE,
              !.current_index = IF @ + 1 = NumScenarios THEN @ + 2 ELSE @ + 1,
              !.delay_timer = TimerReset(s.delay_timer)]

\* manage_scenarios, lines 548-550: the active scenario expired
ActiveExpired(s) ==
    [s EXCEPT !.is_active = FALSE,
              !.current_index = @ + 1,
              !.delay_timer = TimerReset(s.delay_timer)]

\* update_scenario_targets: the DynamicClicking top-up spawns one target when
\* fewer than 3 are alive and the random draw is below 0.1
TopUp(ty, n, draw) ==
    IF ty = "DynamicClicking" /\ n < DynamicMax /\ draw THEN n + 1 ELSE n

\* manage_scenarios, one call: space is keyboard.just_pressed(Space), delta
\* is time.delta(), draw is rand::random::<f32>() < 0.1, n is the number of
\* entities the targets query sees.  The despawn and spawn commands take
\* effect together after the call: targets is the number of targets they
\* leave, cleared tells that every entity of the query was despawned.
ManageScenariosOn(n, space, delta, draw) ==
    LET s0 == scenario_state
        started == StartAccepted(s0, space)
        s1 == IF started THEN AfterStart(s0) ELSE s0
        n1 == IF started THEN 0 ELSE n
        h1 == IF started
              THEN [clock |-> 0, first |-> delta, lost |-> 0, actives |-> 0,
                    delays |-> 1, done |-> FALSE, restarted |-> seq_hist.done]
              ELSE IF s0.has_started
                   THEN [seq_hist EXCEPT !.clock = @ + delta]
                   ELSE seq_hist
        o1 == IF started THEN << "Starting aim test sequence" >> ELSE << >>
    IN
    IF ~s1.has_started
    THEN \* line 515: not started, nothing happens
         [state |-> s1, targets |-> n1, out |-> o1, hist |-> h1, cleared |-> started]
    ELSE IF ~s1.is_active
    THEN \* lines 520-541: delay between scenarios
         LET dt == TimerTick(s1.delay_timer, delta, ScenarioDelayTicks)
             lost == TimerLost(s1.delay_timer, delta, ScenarioDelayTicks)
             s2 == [s1 EXCEPT !.delay_timer = dt]
             h2 == [h1 EXCEPT !.lost = @ + lost]
         IN
         IF dt.just
         THEN IF HasMore(s2)
              THEN [state |-> StartScenario(s2),
                    targets |-> ScenarioTargetCount(Scenarios[s2.current_index + 1]),
                    out |-> Append(o1, "Starting scenario"),
                    hist |-> [h2 EXCEPT !.actives = @ + 1],
                    cleared |-> TRUE]
              ELSE [state |-> Complete(s2), targets |-> n1,
                    out |-> Append(o1, "All scenarios completed!"),
                    hist |-> [h2 EXCEPT !.done = TRUE], cleared |-> started]
         ELSE [state |-> s2, targets |-> n1, out |-> o1, hist |-> h2,
               cleared |-> started]
    ELSE \* lines 542-565: active scenario
         LET st == TimerTick(s1.scenario_timer, delta, ScenarioDurationTicks)
             lost == TimerLost(s1.scenario_timer, delta, ScenarioDurationTicks)
             s2 == [s1 EXCEPT !.scenario_timer = st]
             h2 == [h1 EXCEPT !.lost = @ + lost]
         IN
         IF st.just
         THEN LET s3 == ActiveExpired(s2) IN
              [state |-> s3, targets |-> 0,
               out |-> IF HasMore(s3)
                       THEN Append(o1, "Scenario completed") ELSE o1,
               hist |-> [h2 EXCEPT !.delays = @ + 1], cleared |-> TRUE]
         ELSE [state |-> s2, targets |-> TopUp(s2.current_type, n1, draw),
               out |-> o1, hist |-> h2, cleared |-> started]

\* manage_scenarios on its own in a frame
ManageScenarios(space, delta, draw) ==
    \E r \in {ManageScenariosOn(seq_targets, space, delta, draw)} :
        /\ scenario_state' = r.state
        /\ seq_targets' = r.targets
        /\ seq_out' = r.out
        /\ seq_hist' = r.hist

\* one frame of the main.rs Update schedule, as far as the sequencer goes
SeqFrame ==
    /\ \E space \in BOOLEAN, delta \in 0..MaxDelta, draw \in BOOLEAN :
          ManageScenarios(space, delta, draw)
    /\ UNCHANGED <<clickVars, targetVars, calibVars, auxVars>>

\* a frame in which simulated time advances
SeqAdvance ==
    /\ \E space \in BOOLEAN, delta \in 1..MaxDelta, draw \in BOOLEAN :
          ManageScenarios(space, delta, draw)
    /\ UNCHANGED <<clickVars, targetVars, calibVars, auxVars>>

SeqNext == SeqFrame

\* ------------------------------------------------------------ click_targets
\* click_targets, line 412: the shot cooldown of 0.1 s
CooldownTicks == TicksPerTenth

\* mutant: a shot is accepted as soon as the stopwatch reaches the cooldown
CoolingDown_Strict(elapsed) == elapsed < CooldownTicks

\* click_targets, line 412: the stopwatch has not passed the cooldown
CoolingDown(elapsed) == elapsed <= CooldownTicks

\* mutant: a shot that hits nothing costs no point
PointsAfter_FreeMiss(p, hit) ==
    IF hit = "target" THEN p + 1 ELSE IF hit = "other" THEN p - 1 ELSE p

\* process_hit_result: the change of Points.value for the ray's first hit,
\* "target" (a Target entity), "other" (another collider) or "none"
PointsAfter(p, hit) == IF hit = "target" THEN p + 1 ELSE p - 1

\* process_hit_result: a hit target is despawned and one target is spawned
TargetsAfter(n, hit) == IF hit = "target" THEN (n - 1) + 1 ELSE n

\* click_targets, line 431
StopwatchAfterShot(elapsed) == 0

\* click_targets, one call: delta is time.delta(), pressed is
\* buttons.pressed(MouseButton::Left), hit is what cast_ray returns
ClickTargets(delta, pressed, hit) ==
    LET elapsed == shoot_tracker + delta      \* line 408
        since == click_hist.since + delta
    IN
    /\ elapsed <= MaxStopwatch
    /\ (hit = "target") => seq_targets > 0
    /\ IF ~pressed \/ CoolingDown(elapsed)
       THEN \* lines 411-412: early return
            /\ shoot_tracker' = elapsed
            /\ points' = points
            /\ seq_targets' = seq_targets
            /\ click_hist' = [click_hist EXCEPT !.since = since, !.last = "none"]
       ELSE \* lines 415-431: the shot is accepted
            /\ PointsAfter(points, hit) \in -MaxPoints..MaxPoints
            /\ points' = PointsAfter(points, hit)
            /\ seq_targets' = TargetsAfter(seq_targets, hit)
            /\ shoot_tracker' = StopwatchAfterShot(elapsed)
            /\ click_hist' = [since |-> 0, gap |-> since,
                              shots |-> IF click_hist.shots < 2 THEN click_hist.shots + 1 ELSE 2,
                              last |-> hit]

\* one frame of the main.rs Update schedule, as far as click_targets goes
ClickFrame ==
    /\ \E delta \in 0..MaxClickDelta, pressed \in BOOLEAN,
          hit \in {"target", "other", "none"} :
          ClickTargets(delta, pressed, hit)
    /\ UNCHANGED <<scenario_state, seq_out, seq_hist, targetVars, calibVars, auxVars>>

ClickNext == ClickFrame

\* ------------------------- main.rs: manage_scenarios and click_targets
\* time.delta() of the sequencer's frames, in the ticks of the stopwatch
StopwatchTicks(delta) == (delta * 10 * TicksPerTenth) \div TicksPerSecond

\* The two systems are in the same Update tuple with no order between them
\* (main.rs, lines 143-152), and both queue their despawns and spawns as
\* commands.  Commands are applied at the schedule's next synchronisation
\* point: after both systems ("together"), or between them, with
\* click_targets before manage_scenarios ("click_first") or after it
\* ("manage_first").
SystemOrders == {"together", "click_first", "manage_first"}

\* what the ray of a shot can report: "released" is a frame without a press
Shots == {"released", "target", "other", "none"}

\* one frame of the main.rs Update schedule with both systems
PlayFrame(order, space, delta, draw, shot) ==
    LET elapsed == shoot_tracker + StopwatchTicks(delta)          \* line 408
        accepted == shot # "released" /\ ~CoolingDown(elapsed)    \* lines 411-412
    IN
    /\ elapsed <= MaxPlayStopwatch
    /\ (shot = "target") => seq_targets > 0
    /\ \E m \in {ManageScenariosOn(seq_targets, space, delta, draw)} :
       \* line 445: an entity manage_scenarios' applied commands despawned is
       \* not in the targets query any more
       \E hit \in {IF order = "manage_first" /\ m.cleared /\ shot = "target"
                   THEN "other" ELSE shot} :
       \E replaced \in {accepted /\ hit = "target"} :
          /\ scenario_state' = m.state
          /\ seq_out' = m.out
          /\ seq_targets' =
                CASE order = "click_first" ->
                        \* the query of manage_scenarios holds the new target
                        m.targets
                  [] order = "manage_first" ->
                        IF replaced THEN TargetsAfter(m.targets, hit) ELSE m.targets
                  [] order = "together" ->
                        \* lines 506-508, 553-555, 592-594 despawn the entities
                        \* of the query; the target line 447 spawns is not
                        \* among them
                        IF replaced
                        THEN IF m.cleared THEN m.targets + 1
                             ELSE TargetsAfter(m.targets, hit)
                        ELSE m.targets
          /\ IF accepted
             THEN /\ PointsAfter(points, hit) \in -MaxPoints..MaxPoints
                  /\ points' = PointsAfter(points, hit)
                  /\ shoot_tracker' = StopwatchAfterShot(elapsed)
             ELSE /\ points' = points
                  /\ shoot_tracker' = elapsed

\* seq_hist and click_hist are the histories of the frames of one system
PlayStep ==
    /\ \E order \in SystemOrders, space \in BOOLEAN, delta \in 0..MaxDelta,
          draw \in BOOLEAN, shot \in Shots :
          PlayFrame(order, space, delta, draw, shot)
    /\ UNCHANGED <<seq_hist, click_hist, targetVars, calibVars, auxVars>>

PlayNext == PlayStep

\* -------------------------------------------------- target.rs: TargetPlugin
\* Time of the TargetPlugin frames is counted in seconds.  The Target
\* entities are kept in spawn order; within a frame an entity is named by its
\* place in the frame's first sequence, and a target spawned in the frame
\* gets the place after the last.

\* update_target_spawners, lines 183-198: Target { radius, time_to_live,
\* ..Default::default() } with a Lifetime timer; spawn_timer is None
SpawnedTarget ==
    [ health |-> DEFAULT_HEALTH, points |-> DEFAULT_POINTS,
      destroy_on_hit |-> TRUE, spawning |-> FALSE, life |-> NewTimer ]

\* Timer::tick for TimerMode::Repeating: on finishing the timer wraps around
RepeatingTick(t, delta, dur) ==
    IF t.elapsed + delta >= dur
    THEN [elapsed |-> (t.elapsed + delta) % dur, finished |-> TRUE, just |-> TRUE]
    ELSE [elapsed |-> t.elapsed + delta, finished |-> FALSE, just |-> FALSE]

\* ScoreTracker::default(); accuracy is kept as the fraction hits / shots in
\* lowest terms (the f32 value is that fraction times 100), 0.0 as 0 / 1
ScoreTrackerDefault ==
    [ score |-> 0, hits |-> 0, misses |-> 0, accuracy |-> <<0, 1>>,
      shots_fired_this_frame |-> FALSE, hit_registered_this_frame |-> FALSE ]

\* the Update schedule of a build runs update_target_lifetime and
\* update_target_spawners before or after the point where the commands of
\* update_target_health are applied
Schedules == [lifeLate : BOOLEAN, spawnLate : BOOLEAN]

HitInNone ==
    [fired |-> FALSE, view |-> "ok", order |-> << >>, dist |-> << >>,
     called |-> FALSE]

\* TargetPlugin::build Startup: setup_score_tracker, setup_basic_target_spawner
TargetInit ==
    /\ targets = << >>
    /\ spawner = NewTimer
    /\ score_tracker = ScoreTrackerDefault
    /\ hit_events = << >>
    /\ destroyed_events = << >>
    /\ frame_in = [fired |-> FALSE, view |-> "ok"]
    /\ shot_hist = [shots |-> 0, hitting |-> 0]
    /\ schedule \in Schedules
    /\ hit_in = HitInNone

\* the TargetPlugin left alone, under the schedule that runs both systems early
TargetIdle ==
    /\ TargetInit
    /\ schedule = [lifeLate |-> FALSE, spawnLate |-> FALSE]

\* mutant: the frame's flags are not reset
ResetScoreTrackerFlags_Keep(st) == st

\* reset_score_tracker_flags
ResetScoreTrackerFlags(st) ==
    [st EXCEPT !.shots_fired_this_frame = FALSE,
               !.hit_registered_this_frame = FALSE]

\* mutant: the nearest hit is overwritten by every later intersecting target
CloserHit_Any(best, d) == TRUE

\* detect_target_hits, line 358: best is <<distance, entity>>, <<0, 0>> for None
CloserHit(best, d) == best[2] = 0 \/ d < best[1]

\* detect_target_hits, lines 346-362: the loop over target_query in the
\* query's order; dist[e] is what hitbox.intersect_ray returns for target e,
\* 0 for None
RECURSIVE ClosestHit(_, _, _, _)
ClosestHit(order, ts, dist, k) ==
    IF k = 0 THEN <<0, 0>>
    ELSE LET best == ClosestHit(order, ts, dist, k - 1)
             e == order[k]
         IN  IF ts[e].spawning THEN best
             ELSE IF dist[e] = 0 THEN best
             ELSE IF CloserHit(best, dist[e]) THEN <<dist[e], e>> ELSE best

\* detect_target_hits: the TargetHitEvents it sends.  view tells whether the
\* primary window, the camera and the ray through the screen centre exist.
DetectTargetHits(fired, view, order, ts, dist) ==
    IF ~fired THEN << >>                                   \* line 331
    ELSE IF view = "no_window" THEN << >>                  \* line 335
    ELSE IF view = "no_camera" THEN << >>                  \* line 336
    ELSE IF view = "no_ray" THEN << >>                     \* line 345
    ELSE LET closest == ClosestHit(order, ts, dist, Len(order)) IN
         IF closest[2] = 0 THEN << >>
         ELSE << [target_entity |-> closest[2], damage |-> HIT_DAMAGE] >>

\* mutant: a target of health 0 is left alive
Dead_Below(h) == h < 0

\* update_target_health, line 399
Dead(h) == h <= 0

DestroyedByHit(e, t) ==
    [target_entity |-> e, points |-> t.points, destroyed_by_hit |-> TRUE]

\* update_target_health: the loop over the hit events; the despawns are
\* commands, applied after the system
RECURSIVE UpdateTargetHealth(_, _, _)
UpdateTargetHealth(ts, evs, k) ==
    IF k = 0 THEN [ts |-> ts, destroyed |-> << >>, despawn |-> {}]
    ELSE LET r == UpdateTargetHealth(ts, evs, k - 1)
             e == evs[k].target_entity
             t == r.ts[e]
             h == t.health - evs[k].damage
         IN  IF e \notin DOMAIN r.ts THEN r
             ELSE IF t.destroy_on_hit
             THEN [r EXCEPT !.destroyed = Append(@, DestroyedByHit(e, t)),
                            !.despawn = @ \cup {e}]
             ELSE IF Dead(h)
             THEN [ts |-> [r.ts EXCEPT ![e].health = h],
                   destroyed |-> Append(r.destroyed,
                                        DestroyedByHit(e, [t EXCEPT !.health = h])),
                   despawn |-> r.despawn \cup {e}]
             ELSE [r EXCEPT !.ts = [r.ts EXCEPT ![e].health = h]]

\* update_target_lifetime: the destroyed events for the expired targets among
\* the first k entities
RECURSIVE ExpiredEvents(_, _)
ExpiredEvents(expired, k) ==
    IF k = 0 THEN << >>
    ELSE IF k \in expired
         THEN Append(ExpiredEvents(expired, k - 1),
                     [target_entity |-> k, points |-> 0, destroyed_by_hit |-> FALSE])
         ELSE ExpiredEvents(expired, k - 1)

\* the entities left when the despawn commands have been applied
RECURSIVE Despawn(_, _, _)
Despawn(ts, gone, k) ==
    IF k = 0 THEN << >>
    ELSE IF k \in gone THEN Despawn(ts, gone, k - 1)
         ELSE Append(Despawn(ts, gone, k - 1), ts[k])

\* update_score_tracker, lines 261-266
RECURSIVE ScoreEvents(_, _, _)
ScoreEvents(st, evs, k) ==
    IF k = 0 THEN st
    ELSE LET r == ScoreEvents(st, evs, k - 1) IN
         IF evs[k].destroyed_by_hit
         THEN [r EXCEPT !.score = @ + evs[k].points,
                        !.hit_registered_this_frame = TRUE]
         ELSE r

RECURSIVE Gcd(_, _)
Gcd(a, b) == IF b = 0 THEN a ELSE Gcd(b, a % b)

\* update_score_tracker, line 283: hits as f32 / total_shots as f32 * 100.0
Accuracy(h, n) == << h \div Gcd(h, n), n \div Gcd(h, n) >>

\* mutant: the accuracy is recomputed only when the shot was a hit
CountShot_StaleOnMiss(st) ==
    IF st.hit_registered_this_frame
    THEN [st EXCEPT !.hits = @ + 1,
                    !.accuracy = Accuracy(st.hits + 1, st.hits + 1 + st.misses)]
    ELSE [st EXCEPT !.misses = @ + 1]

\* update_score_tracker, lines 275-284
CountShot(st) ==
    LET st1 == IF st.hit_registered_this_frame
               THEN [st EXCEPT !.hits = @ + 1]
               ELSE [st EXCEPT !.misses = @ + 1]
        total_shots == st1.hits + st1.misses
    IN  IF total_shots > 0
        THEN [st1 EXCEPT !.accuracy = Accuracy(st1.hits, total_shots)]
        ELSE st1

\* update_score_tracker
UpdateScoreTracker(st, evs, just_pressed) ==
    LET s1 == ScoreEvents(st, evs, Len(evs))
        s2 == IF just_pressed
              THEN [s1 EXCEPT !.shots_fired_this_frame = TRUE]
              ELSE s1
    IN  IF s2.shots_fired_this_frame THEN CountShot(s2) ELSE s2

\* mutant: the spawner does not count the targets
SpawnDue_NoCap(spawn_timer, current_target_count) == spawn_timer.just

\* update_target_spawners, line 175
SpawnDue(spawn_timer, current_target_count) ==
    spawn_timer.just /\ current_target_count < MAX_TARGETS

\* the target query iterates over the entities in spawn order
QueryOrder(ts) == [k \in 1..Len(ts) |-> k]

\* One frame of the TargetPlugin's Update systems.  The schedule orders
\* reset_score_tracker_flags before update_score_tracker and
\* detect_target_hits before update_target_health before
\* update_score_tracker, with the commands of update_target_health applied
\* before update_score_tracker; update_target_lifetime and
\* update_target_spawners see the entities of the frame's start when they
\* run before that point and the entities left after it when they run late.
TargetFrame(delta, fired, view, dist) ==
    \E hits \in {DetectTargetHits(fired, view, QueryOrder(targets), targets, dist)} :
    \E hr \in {UpdateTargetHealth(targets, hits, Len(hits))} :
    \E sp \in {RepeatingTick(spawner, delta, SPAWN_PERIOD)} :
    LET n == Len(targets)
        w0 == 1..n
        st0 == ResetScoreTrackerFlags(score_tracker)
        early == IF schedule.lifeLate THEN {}
                 ELSE {e \in w0 : TimerTick(targets[e].life, delta, TARGET_LIFETIME).finished}
        count == IF schedule.spawnLate
                 THEN Cardinality(w0 \ (hr.despawn \cup early))
                 ELSE n
    IN
    \E doSpawn \in {SpawnDue(sp, count)} :
    \E ts1 \in {IF doSpawn THEN Append(hr.ts, SpawnedTarget) ELSE hr.ts} :
    \E wl \in {IF schedule.lifeLate
                THEN (w0 \ hr.despawn)
                       \cup (IF doSpawn /\ ~schedule.spawnLate THEN {n + 1} ELSE {})
                ELSE w0} :
    \E ts2 \in {[e \in 1..Len(ts1) |->
                    IF e \in wl
                    THEN [ts1[e] EXCEPT !.life = TimerTick(@, delta, TARGET_LIFETIME)]
                    ELSE ts1[e]]} :
    \E expired \in {{e \in wl : ts2[e].life.finished}} :
    \E evs \in {hr.destroyed \o ExpiredEvents(expired, Len(ts1))} :
    /\ targets' = Despawn(ts2, hr.despawn \cup expired, Len(ts2))
    /\ spawner' = IF doSpawn THEN TimerReset(sp) ELSE sp
    /\ score_tracker' = UpdateScoreTracker(st0, evs, fired)
    /\ hit_events' = hits
    /\ destroyed_events' = evs
    /\ frame_in' = [fired |-> fired, view |-> view]
    /\ shot_hist' = IF fired
                    THEN [shots |-> shot_hist.shots + 1,
                          hitting |-> shot_hist.hitting + Len(hits)]
                    ELSE shot_hist
    /\ schedule' = schedule
    /\ hit_in' = hit_in

\* the ray of a frame: it misses every target, or it intersects one or two
\* of the n targets at distances in 1..MaxDist
NoDist(n) == [e \in 1..n |-> 0]

Dists(n) ==
    {NoDist(n)}
    \cup {[e \in 1..n |-> IF e = a THEN da ELSE IF e = b THEN db ELSE 0] :
            a \in 1..n, b \in 1..n, da \in 1..MaxDist, db \in 1..MaxDist}

\* a frame in which the fire button is not just pressed
IdleFrame ==
    /\ \E delta \in 0..MaxTargetDelta :
          TargetFrame(delta, FALSE, "ok", NoDist(Len(targets)))
    /\ UNCHANGED <<seqVars, clickVars, calibVars, auxVars>>

\* a frame in which the fire button was just pressed
FireFrame ==
    /\ shot_hist.shots < MaxShots
    /\ \E delta \in 0..MaxTargetDelta, dist \in Dists(Len(targets)) :
          TargetFrame(delta, TRUE, "ok", dist)
    /\ UNCHANGED <<seqVars, clickVars, calibVars, auxVars>>

\* a frame in which the fire button was just pressed and the window, the
\* camera or the ray is missing
BlindFireFrame ==
    /\ shot_hist.shots < MaxShots
    /\ \E delta \in 0..MaxTargetDelta, view \in {"no_window", "no_camera", "no_ray"} :
          TargetFrame(delta, TRUE, view, NoDist(Len(targets)))
    /\ UNCHANGED <<seqVars, clickVars, calibVars, auxVars>>

TargetNext == IdleFrame \/ FireFrame \/ BlindFireFrame

\* ------------------------------------ calibration_session.rs: the session
\* The scenario timer counts the ticks of the sequencer's clock.
CalibScenarioTicks == CALIBRATION_SCENARIO_SECS * TicksPerSecond

\* setup_calibration_session; collected_metrics is a map from key to value
CalibrationStateInit ==
    [ current_scenario |-> 0,
      total_scenarios |-> TOTAL_SCENARIOS,
      scenario_timer |-> NewTimer,
      is_complete |-> FALSE,
      collected_metrics |-> << >> ]

\* the process while it runs
Running == [exited |-> FALSE, code |-> 0]

\* the startup of the session; the schedule of a build runs
\* output_results_and_exit before or after run_calibration_scenarios
CalibInit ==
    /\ calibration_state = CalibrationStateInit
    /\ results_out = << >>
    /\ exit_status = Running
    /\ calib_hist = [expirations |-> 0, read |-> ScoreTrackerDefault]
    /\ calib_order \in {"run_first", "output_first"}

\* the session left alone, under the schedule that runs
\* run_calibration_scenarios first
CalibIdle ==
    /\ CalibInit
    /\ calib_order = "run_first"

\* mutant: the key does not name the scenario
MetricKey_Shared(k, field) == <<"scenario", 0, field>>

\* format!("scenario_{}_score", k) / format!("scenario_{}_accuracy", k)
MetricKey(k, field) == <<"scenario", k, field>>

\* HashMap::insert
Insert(m, key, value) ==
    [x \in (DOMAIN m) \cup {key} |-> IF x = key THEN value ELSE m[x]]

\* the ScoreTracker the session reads: untouched, or after one shot that
\* destroyed a target
ScoreReadings ==
    { ScoreTrackerDefault,
      UpdateScoreTracker(ScoreTrackerDefault,
                         << DestroyedByHit(1, SpawnedTarget) >>, TRUE) }

\* mutant: the session is complete only past the last scenario
AllScenariosDone_Past(state) == state.current_scenario > state.total_scenarios

\* run_calibration_scenarios, line 65
AllScenariosDone(state) == state.current_scenario >= state.total_scenarios

\* run_calibration_scenarios, line 54 in a call that gets past line 44
TimerExpires(state, delta) ==
    /\ ~state.is_complete
    /\ TimerTick(state.scenario_timer, delta, CalibScenarioTicks).finished

\* run_calibration_scenarios: the CalibrationState after one call
RunCalibrationScenarios(state, delta, score) ==
    IF state.is_complete THEN state                              \* line 44
    ELSE LET s1 == [state EXCEPT !.scenario_timer =
                        TimerTick(@, delta, CalibScenarioTicks)] \* line 48
         IN  IF ~s1.scenario_timer.finished THEN s1              \* line 54
             ELSE LET k == s1.current_scenario
                      s2 == [s1 EXCEPT
                               !.collected_metrics =
                                  Insert(Insert(@, MetricKey(k, "score"), score.score),
                                         MetricKey(k, "accuracy"), score.accuracy),
                               !.current_scenario = k + 1]        \* lines 58-64
                  IN  IF AllScenariosDone(s2)
                      THEN [s2 EXCEPT !.is_complete = TRUE]       \* line 66
                      ELSE [s2 EXCEPT !.scenario_timer = TimerReset(@)]  \* line 70

\* the keys of the session's metrics in ascending order
RECURSIVE KeyList(_)
KeyList(n) ==
    IF n = 0 THEN << >>
    ELSE KeyList(n - 1) \o << MetricKey(n - 1, "accuracy"), MetricKey(n - 1, "score") >>

Reverse(q) == [i \in 1..Len(q) |-> q[Len(q) + 1 - i]]

\* the order in which the HashMap iterates over its keys: it depends on the
\* map's random hasher; two orders are followed
IterationOrder(m, rev) ==
    LET InMap(key) == key \in DOMAIN m
        keys == SelectSeq(KeyList(TOTAL_SCENARIOS), InMap)
    IN  IF rev THEN Reverse(keys) ELSE keys

\* serde_json::to_string(&collected_metrics): the object's members in the
\* map's iteration order; writing a map with string keys and f64 values to a
\* string does not fail
SerdeToString(m, rev) ==
    LET keys == IterationOrder(m, rev)
    IN  [ok |-> TRUE, json |-> [i \in 1..Len(keys) |-> <<keys[i], m[keys[i]]>>]]

\* the map a JSON object's text stands for
ParseJson(json) ==
    [key \in {json[i][1] : i \in 1..Len(json)} |->
        LET i == CHOOSE j \in 1..Len(json) : json[j][1] = key IN json[i][2]]

\* a line of text, and the line that holds the JSON
TextLine(text) == [text |-> text, json |-> << >>]

JsonLine(json) == [text |-> "", json |-> json]

\* the fallback of lines 100-102: one "key: value" line per metric
KeyValueLines(m, rev) ==
    LET keys == IterationOrder(m, rev)
    IN  [i \in 1..Len(keys) |-> JsonLine(<< <<keys[i], m[keys[i]]>> >>)]

\* mutant: the results are written whether or not the session is complete
ResultsDue_Always(state) == TRUE

\* output_results_and_exit, line 83
ResultsDue(state) == state.is_complete

\* output_results_and_exit, lines 87-104: what a call past line 83 prints
ResultsLines(state, rev) ==
    LET r == SerdeToString(state.collected_metrics, rev)
    IN  << TextLine("Calibration finished. Outputting results...") >>
        \o (IF r.ok
            THEN << TextLine("AIM_TRAINER_RESULTS_START"),
                    JsonLine(r.json),
                    TextLine("AIM_TRAINER_RESULTS_END") >>
            ELSE KeyValueLines(state.collected_metrics, rev))

\* std::process::exit(0), line 108
EXIT_CODE == 0

\* the process after std::process::exit(code)
Exited(code) == [exited |-> TRUE, code |-> code]

\* One frame of the session: run_calibration_scenarios and
\* output_results_and_exit, in the schedule's order.  The process exits inside
\* output_results_and_exit, so nothing runs after it.
CalibFrame(delta, score, rev) ==
    /\ ~exit_status.exited
    /\ IF calib_order = "output_first" /\ ResultsDue(calibration_state)
       THEN /\ results_out' = results_out \o ResultsLines(calibration_state, rev)
            /\ exit_status' = Exited(EXIT_CODE)
            /\ UNCHANGED <<calibration_state, calib_hist>>
       ELSE \E s1 \in {RunCalibrationScenarios(calibration_state, delta, score)} :
            /\ calibration_state' = s1
            /\ calib_hist' =
                  [expirations |-> calib_hist.expirations
                      + (IF TimerExpires(calibration_state, delta) THEN 1 ELSE 0),
                   read |-> score]
            /\ IF calib_order = "run_first" /\ ResultsDue(s1)
               THEN /\ results_out' = results_out \o ResultsLines(s1, rev)
                    /\ exit_status' = Exited(EXIT_CODE)
               ELSE UNCHANGED <<results_out, exit_status>>
    /\ calib_order' = calib_order

\* a frame of the session
CalibStep ==
    /\ \E delta \in 0..MaxDelta, score \in ScoreReadings, rev \in BOOLEAN :
          CalibFrame(delta, score, rev)
    /\ UNCHANGED <<seqVars, clickVars, targetVars, auxVars>>

\* a frame in which the clock advances
CalibAdvance ==
    /\ \E delta \in 1..MaxDelta, score \in ScoreReadings, rev \in BOOLEAN :
          CalibFrame(delta, score, rev)
    /\ UNCHANGED <<seqVars, clickVars, targetVars, auxVars>>

CalibNext == CalibStep

\* ------------------------------------------- frames with entities missing
\* The systems that look up the primary window, the camera entity (Camera,
\* RenderPlayer) or the player entity (LogicalPlayer, FpsController,
\* ShootTracker): manage_cursor and click_targets of main.rs and
\* detect_target_hits of target.rs.  A panic of a system ends the app.

\* Window::default() cursor options; FpsController { ..default() }
CursorInit == [grab_mode |-> "None", visible |-> TRUE, enable_input |-> TRUE]

GuardInNone ==
    [window |-> TRUE, camera |-> TRUE, player |-> TRUE,
     before |-> [points |-> 0, shoot_tracker |-> 0, seq_targets |-> SetupTargets,
                 cursor |-> CursorInit]]

GuardInit ==
    /\ cursor = CursorInit
    /\ panicked = "none"
    /\ guard_in = GuardInNone

\* set_cursor_state
SetCursorState(gameplay_active) ==
    [grab_mode |-> IF gameplay_active THEN "Locked" ELSE "None",
     visible |-> ~gameplay_active,
     enable_input |-> gameplay_active]

\* manage_cursor: button is the left mouse button ("up", "just_pressed" or
\* "held"), esc whether Escape was just pressed
ManageCursor(world, button, esc, c) ==
    IF ~world.window THEN c                                  \* line 374
    ELSE IF ~world.player THEN c                             \* line 375
    ELSE IF button = "just_pressed" THEN SetCursorState(TRUE)
    ELSE IF esc THEN SetCursorState(FALSE)
    ELSE c

\* click_targets in a world where the player or the camera may be missing:
\* Query::single panics unless exactly one entity matches
ClickTargetsIn(world, delta, button, hit) ==
    LET elapsed == shoot_tracker + delta
        same == [panic |-> "none", shoot_tracker |-> shoot_tracker,
                 points |-> points, seq_targets |-> seq_targets]
    IN  IF ~world.player
        THEN [same EXCEPT !.panic = "click_targets: player_query.single()"]   \* line 406
        ELSE IF button = "up" \/ CoolingDown(elapsed)
        THEN [same EXCEPT !.shoot_tracker = elapsed]                         \* lines 408-412
        ELSE IF ~world.camera
        THEN [same EXCEPT !.shoot_tracker = elapsed,
                          !.panic = "click_targets: camera.single()"]        \* line 415
        ELSE [panic |-> "none",
              shoot_tracker |-> StopwatchAfterShot(elapsed),
              points |-> PointsAfter(points, hit),
              seq_targets |-> TargetsAfter(seq_targets, hit)]

\* detect_target_hits, lines 335-336: what it finds of the window and camera
ViewOf(world) ==
    IF ~world.window THEN "no_window"
    ELSE IF ~world.camera THEN "no_camera"
    ELSE "ok"

\* One frame of manage_cursor, click_targets and detect_target_hits.  When
\* click_targets panics the other two systems of the frame have run or not.
GuardFrame(world, delta, button, esc, hit, dist) ==
    /\ panicked = "none"
    /\ shoot_tracker + delta <= MaxStopwatch
    /\ (hit = "target") => seq_targets > 0
    /\ \E r \in {ClickTargetsIn(world, delta, button, hit)} :
          /\ r.points \in -MaxPoints..MaxPoints
          /\ panicked' = r.panic
          /\ shoot_tracker' = r.shoot_tracker
          /\ points' = r.points
          /\ seq_targets' = r.seq_targets
          /\ \E ranCursor \in (IF r.panic = "none" THEN {TRUE} ELSE BOOLEAN) :
                cursor' = IF ranCursor THEN ManageCursor(world, button, esc, cursor)
                          ELSE cursor
          /\ \E ranDetect \in (IF r.panic = "none" THEN {TRUE} ELSE BOOLEAN) :
                hit_events' = IF ranDetect
                              THEN DetectTargetHits(button = "just_pressed", ViewOf(world),
                                                    QueryOrder(targets), targets, dist)
                              ELSE << >>
    /\ guard_in' = [window |-> world.window, camera |-> world.camera,
                    player |-> world.player,
                    before |-> [points |-> points, shoot_tracker |-> shoot_tracker,
                                seq_targets |-> seq_targets, cursor |-> cursor]]
    /\ UNCHANGED <<scenario_state, seq_out, seq_hist, click_hist, calibVars,
                   moveVars, tuneVars, sensVars, lateVars, targets, spawner, score_tracker, destroyed_events, frame_in,
                   shot_hist, schedule, hit_in>>

Worlds == [window : BOOLEAN, camera : BOOLEAN, player : BOOLEAN]

\* the ray through the crosshair meets the first target, something else or
\* nothing, for the ray cast of click_targets and for intersect_ray alike; a
\* frame takes no time or enough to pass the cooldown
RayDist(hit, n) == [e \in 1..n |-> IF hit = "target" /\ e = 1 THEN 1 ELSE 0]

GuardStep ==
    \E world \in Worlds, delta \in {0, CooldownTicks + 1},
       button \in {"up", "just_pressed", "held"}, esc \in BOOLEAN,
       hit \in {"target", "other", "none"} :
       GuardFrame(world, delta, button, esc, hit, RayDist(hit, Len(targets)))

GuardNext == GuardStep

\* --------------------------------------- target.rs: update_target_movement
\* Positions and velocities are whole numbers on each of the three axes.
Axes == 1..3

BoundsMin == [i \in Axes |-> 0]

BoundsMax == [i \in Axes |-> MaxCoord]

\* TargetMovement::Static / TargetMovement::Linear { velocity, bounds }; bounds
\* is << >> for None and << min, max >> for Some((min, max)).  variant names
\* the file whose update_target_movement moves the target.
Movements ==
    [ variant : {"target.rs", "oldCalibrationFile.rs"},
      kind : {"Linear"},
      translation : [Axes -> 0..MaxCoord],
      velocity : [Axes -> -MaxSpeed..MaxSpeed],
      bounds : {<< BoundsMin, BoundsMax >>} ]
    \cup
    [ variant : {"target.rs", "oldCalibrationFile.rs"},
      kind : {"Static", "Linear"},
      translation : {BoundsMin},
      velocity : {[i \in Axes |-> IF i = 1 THEN 1 ELSE 0]},
      bounds : {<< >>} ]

MoveHistInit == [bounces |-> 0, delta |-> 0, from |-> BoundsMin, with |-> BoundsMin]

MoveInit ==
    /\ movement \in Movements
    /\ move_hist = MoveHistInit

\* the movement left alone: a Static target
MoveIdle ==
    /\ movement = [variant |-> "target.rs", kind |-> "Static",
                   translation |-> BoundsMin,
                   velocity |-> [i \in Axes |-> IF i = 1 THEN 1 ELSE 0],
                   bounds |-> << >>]
    /\ move_hist = MoveHistInit

\* mutant: the position is left where the step took it
Clamp_None(x, lo, hi) == x

\* f32::clamp
Clamp(x, lo, hi) == IF x < lo THEN lo ELSE IF x > hi THEN hi ELSE x

\* target.rs lines 132-133: the target is past a bound and moving outwards
Leaving(x, v, lo, hi) == (x < lo /\ v < 0) \/ (x > hi /\ v > 0)

\* oldCalibrationFile.rs line 2115: the target is past a bound
Outside(x, v, lo, hi) == x < lo \/ x > hi

\* update_target_movement for one target: the translation and velocity after
\* the frame
UpdateTargetMovement(m, delta_time) ==
    IF m.kind = "Static" THEN m
    ELSE LET moved == [i \in Axes |-> m.translation[i] + m.velocity[i] * delta_time]
         IN  IF m.bounds = << >>
             THEN [m EXCEPT !.translation = moved]
             ELSE LET lo == m.bounds[1]
                      hi == m.bounds[2]
                      Turns(i) ==
                          IF m.variant = "target.rs"
                          THEN Leaving(moved[i], m.velocity[i], lo[i], hi[i])
                          ELSE Outside(moved[i], m.velocity[i], lo[i], hi[i])
                  IN  [m EXCEPT
                         !.velocity = [i \in Axes |->
                            IF Turns(i) THEN m.velocity[i] * (-1) ELSE m.velocity[i]],
                         !.translation = [i \in Axes |->
                            IF Turns(i) THEN Clamp(moved[i], lo[i], hi[i]) ELSE moved[i]]]

\* one frame of update_target_movement
MoveFrame ==
    /\ \E delta_time \in 0..MaxMoveDelta :
       \E m \in {UpdateTargetMovement(movement, delta_time)} :
          /\ \A i \in Axes : m.translation[i] \in -MaxCoord..(2 * MaxCoord)
          /\ movement' = m
          /\ move_hist' =
                [bounces |-> IF m.velocity # movement.velocity
                             THEN 1 ELSE move_hist.bounces,
                 delta |-> delta_time,
                 from |-> movement.translation,
                 with |-> movement.velocity]
    /\ UNCHANGED <<seqVars, clickVars, targetVars, calibVars, guardVars, tuneVars,
                   sensVars, lateVars>>

MoveNext == MoveFrame

\* ------------------- oldCalibrationFile.rs: live tuning of the sensitivity
\* min_sens and max_sens are counted in tenths, growth_base in hundredths.

\* CurveParameters::default()
OldCurveParametersDefault ==
    [min_sens |-> OLD_MIN_SENS, max_sens |-> OLD_MAX_SENS,
     range |-> OLD_RANGE, growth_base |-> OLD_GROWTH_BASE]

\* SensitivityProfile::default(): the parameters and the curve built from them
TuneInit ==
    active_profile = [curve_parameters |-> OldCurveParametersDefault,
                      curve |-> OldCurveParametersDefault]

Max(a, b) == IF a >= b THEN a ELSE b

\* lines 1937-1954: Ctrl held; up, down, right, left tell which arrow keys
\* were just pressed
TuneSens(cp, up, down, right, left) ==
    LET c1 == IF up THEN [cp EXCEPT !.min_sens = @ + MIN_SENS_STEP]
              ELSE IF down
              THEN [cp EXCEPT !.min_sens = Max(@ - MIN_SENS_STEP, MIN_SENS_FLOOR)]
              ELSE cp
    IN  IF right THEN [c1 EXCEPT !.max_sens = @ + MAX_SENS_STEP]
        ELSE IF left
        THEN [c1 EXCEPT !.max_sens = Max(@ - MAX_SENS_STEP, c1.min_sens)]
        ELSE c1

\* lines 1957-1974: Shift held
TuneShape(cp, up, down, right, left) ==
    LET c1 == IF up THEN [cp EXCEPT !.range = @ + RANGE_STEP]
              ELSE IF down THEN [cp EXCEPT !.range = Max(@ - RANGE_STEP, RANGE_STEP)]
              ELSE cp
    IN  IF right THEN [c1 EXCEPT !.growth_base = @ + GROWTH_STEP]
        ELSE IF left
        THEN [c1 EXCEPT !.growth_base = Max(@ - GROWTH_STEP, GROWTH_FLOOR)]
        ELSE c1

\* handle_sensitivity_test_ui_interaction: the profile after one call
HandleSensitivityTestUiInteraction(profile, ctrl, shift, up, down, right, left) ==
    LET c1 == IF ctrl THEN TuneSens(profile.curve_parameters, up, down, right, left)
              ELSE profile.curve_parameters
        c2 == IF shift THEN TuneShape(c1, up, down, right, left) ELSE c1
        changed == (ctrl \/ shift) /\ (up \/ down \/ right \/ left)
    IN  [curve_parameters |-> c2,
         curve |-> IF changed THEN c2 ELSE profile.curve]        \* line 1978

Abs(x) == IF x < 0 THEN -x ELSE x

\* the parameters the tuning is followed over
Followed(cp) ==
    /\ cp.min_sens <= MaxMinSens
    /\ cp.max_sens <= MaxMaxSens
    /\ Abs(cp.range - OLD_RANGE) <= MaxRangeDrift
    /\ Abs(cp.growth_base - OLD_GROWTH_BASE) <= MaxGrowthDrift

\* a frame of handle_sensitivity_test_ui_interaction
TuneFrame ==
    /\ \E ctrl \in BOOLEAN, shift \in BOOLEAN, up \in BOOLEAN, down \in BOOLEAN,
          right \in BOOLEAN, left \in BOOLEAN :
       \E p \in {HandleSensitivityTestUiInteraction(active_profile, ctrl, shift,
                                                    up, down, right, left)} :
          /\ Followed(p.curve_parameters)
          /\ active_profile' = p
    /\ UNCHANGED <<seqVars, clickVars, targetVars, calibVars, guardVars, moveVars,
                   sensVars, lateVars>>

TuneNext == TuneFrame

\* SensitivitySystem::default(): game_sensitivity_scales, in hundredths; a
\* game without an entry has the scale 1.0
GameScales ==
    [Valorant |-> 100, CSGO |-> 318, Overwatch |-> 333, Apex |-> 318, Quake |-> 318,
     Other |-> 100]

\* SensitivitySystem::set_from_game on the active profile: game_sens in
\* tenths, the product rounded down to tenths
SetFromGame(profile, game, game_sens) ==
    [profile EXCEPT !.curve_parameters.min_sens = (game_sens * GameScales[game]) \div 100]

\* SensitivityProfile::update_curve_parameters, SensitivityCurve::update_parameters
UpdateCurveParameters(profile, parameters) ==
    [curve_parameters |-> parameters, curve |-> parameters]

\* a call of set_from_game
SetFromGameCall ==
    /\ \E game \in DOMAIN GameScales, game_sens \in 1..MaxGameSens :
       \E p \in {SetFromGame(active_profile, game, game_sens)} :
          /\ Followed(p.curve_parameters)
          /\ active_profile' = p
    /\ UNCHANGED <<seqVars, clickVars, targetVars, calibVars, guardVars, moveVars,
                   sensVars, lateVars>>

\* a call of update_curve_parameters, with the default parameters or with the
\* least min_sens and max_sens
UpdateCurveParametersCall ==
    /\ \E parameters \in {OldCurveParametersDefault,
                           [OldCurveParametersDefault EXCEPT !.min_sens = MIN_SENS_FLOOR,
                                                             !.max_sens = MIN_SENS_FLOOR]} :
          active_profile' = UpdateCurveParameters(active_profile, parameters)
    /\ UNCHANGED <<seqVars, clickVars, targetVars, calibVars, guardVars, moveVars,
                   sensVars, lateVars>>

EditNext == TuneFrame \/ SetFromGameCall \/ UpdateCurveParametersCall

\* ------------------------- sensitivity.rs: calculate_sensitivity_multiplier
\* The f32 values are rational numbers << numerator, denominator >> in lowest
\* terms with a positive denominator, and the arithmetic on them is exact.
Norm(n, d) == LET g == Gcd(Abs(n), d) IN << n \div g, d \div g >>

R(n) == << n, 1 >>

RAdd(a, b) == Norm(a[1] * b[2] + b[1] * a[2], a[2] * b[2])

RSub(a, b) == Norm(a[1] * b[2] - b[1] * a[2], a[2] * b[2])

RMul(a, b) == Norm(a[1] * b[1], a[2] * b[2])

\* a / b for b # 0
RDiv(a, b) ==
    IF b[1] > 0 THEN Norm(a[1] * b[2], a[2] * b[1])
    ELSE Norm((-a[1]) * b[2], a[2] * (-b[1]))

RLe(a, b) == a[1] * b[2] <= b[1] * a[2]

RLt(a, b) == a[1] * b[2] < b[1] * a[2]

\* f32::clamp
RClamp(x, lo, hi) == IF RLt(x, lo) THEN lo ELSE IF RLt(hi, x) THEN hi ELSE x

\* f32::min
RMin(a, b) == IF RLe(a, b) THEN a ELSE b

\* f32::powf for a whole exponent n >= 0
RECURSIVE RPow(_, _)
RPow(b, n) == IF n = 0 THEN R(1) ELSE RMul(b, RPow(b, n - 1))

\* mutant: the progress is not clamped to [0, 1]
NormalizedProgress_Unclamped(input_after_offset, range) ==
    RDiv(input_after_offset, range)

\* line 49: t = (input_after_offset / params.range).clamp(0.0, 1.0)
NormalizedProgress(input_after_offset, range) ==
    RClamp(RDiv(input_after_offset, range), R(0), R(1))

\* mutant: the polynomial 3 t^2 - 3 t^3
Smoothstep_Bump(t) == RMul(RMul(t, t), RSub(R(3), RMul(R(3), t)))

\* lines 53-54: t2 * (3.0 - 2.0 * t)
Smoothstep(t) == RMul(RMul(t, t), RSub(R(3), RMul(R(2), t)))

\* lines 57-58: the exponential progress
ExpoProgress(growth_base, range, input_after_offset) ==
    LET base_factor == RDiv(R(1), RSub(RPow(growth_base, range), R(1)))
    IN  RClamp(RMul(RSub(RPow(growth_base, input_after_offset), R(1)), base_factor),
               R(0), R(1))

\* calculate_sensitivity_multiplier; speed, offset, range, min_sens and
\* max_sens are whole numbers, growth_base is a rational number
CalculateSensitivityMultiplier(speed, params) ==
    IF speed <= params.offset THEN R(params.min_sens)                 \* line 38
    ELSE LET input_after_offset == speed - params.offset
             sens_diff == params.max_sens - params.min_sens
         IN  IF sens_diff <= 0 \/ params.range <= 0
             THEN R(params.min_sens)                                  \* line 45
             ELSE LET t == NormalizedProgress(R(input_after_offset), R(params.range))
                      multiplier_increase ==
                          IF RLe(params.growth_base, R(1))
                          THEN RMul(R(sens_diff), Smoothstep(t))
                          ELSE RMul(R(sens_diff),
                                    ExpoProgress(params.growth_base, params.range,
                                                 input_after_offset))
                      calculated_sens == RAdd(R(params.min_sens), multiplier_increase)
                  IN  IF params.plateau
                      THEN RMin(calculated_sens, R(params.max_sens))  \* line 66
                      ELSE IF RLe(R(1), t) THEN R(params.max_sens)    \* line 70
                           ELSE calculated_sens

\* the parameter sets and the two speeds, speed <= speed2, the curve is
\* evaluated at
SensInputs ==
    { i \in [ params : [ min_sens : 1..MaxCurveMin,
                         max_sens : 1..MaxCurveMax,
                         range : 0..MaxRange,
                         growth_base : {<<h, 2>> : h \in {1, 3}}
                                       \cup {R(h) : h \in 1..(MaxGrowthHalves \div 2)},
                         offset : 0..MaxOffset,
                         plateau : BOOLEAN ],
              speed : 0..MaxInputSpeed,
              speed2 : 0..MaxInputSpeed,
              called : {FALSE} ] :
        i.speed <= i.speed2 }

SensOutNone == [at_speed |-> R(0), at_speed2 |-> R(0)]

SensInit ==
    /\ sens_in \in SensInputs
    /\ sens_out = SensOutNone

\* CurveParameters::default(): min_sens 1.0, max_sens 3.0, plateau, and a
\* growth_base above 1 (the exponential branch); range 500.0, growth_base
\* 1.02 and offset 50.0 are scaled down to the speeds of the model
CurveParametersDefault ==
    [min_sens |-> 1, max_sens |-> 3, range |-> 3, growth_base |-> R(2),
     offset |-> 0, plateau |-> TRUE]

\* the curve left alone is not evaluated
SensIdle ==
    /\ sens_in = [params |-> CurveParametersDefault,
                  speed |-> 0, speed2 |-> 0, called |-> FALSE]
    /\ sens_out = SensOutNone

\* the curve is evaluated at the two speeds
SensCall ==
    /\ ~sens_in.called
    /\ sens_out' =
          [at_speed |-> CalculateSensitivityMultiplier(sens_in.speed, sens_in.params),
           at_speed2 |-> CalculateSensitivityMultiplier(sens_in.speed2, sens_in.params)]
    /\ sens_in' = [sens_in EXCEPT !.called = TRUE]
    /\ UNCHANGED <<seqVars, clickVars, targetVars, calibVars, guardVars, moveVars,
                   tuneVars, lateVars>>

SensNext == SensCall

\* ------------------------------ input.rs, sensitivity.rs, camera.rs: a frame
\* MouseInputBuffer::default(), FpsCamera::default(); the camera's angles are
\* counted in units of camera.sensitivity * 0.002 radians
MouseInputBufferDefault == [samples |-> << >>, sensitivity_multiplier |-> R(1)]

FpsCameraDefault == [yaw |-> 0, pitch |-> 0]

CamHistNone ==
    [raw |-> << 0, 0 >>, sampled |-> FALSE, moved |-> FALSE,
     turn |-> << 0, 0 >>]

CamInit ==
    /\ mouse_buffer = MouseInputBufferDefault
    /\ mouse_unread = << >>
    /\ fps_camera = FpsCameraDefault
    /\ cam_hist = CamHistNone

\* MouseMotion.delta: the pointer moves along one axis
EventDeltas ==
    { << x, 0 >> : x \in (-MaxMouseDelta..MaxMouseDelta) \ {0} }
    \cup { << 0, y >> : y \in (-MaxMouseDelta..MaxMouseDelta) \ {0} }

\* the events of one frame
EventSeqs == UNION { [1..n -> EventDeltas] : n \in 0..MaxEvents }

\* Vec2::length of a vector along one axis
Length(v) == Abs(v[1]) + Abs(v[2])

\* process_mouse_input, lines 53-64: the sample of one event
Sample(delta, multiplier, delta_seconds) ==
    [delta |-> << RMul(R(delta[1]), multiplier), RMul(R(delta[2]), multiplier) >>,
     speed |-> Length(delta) \div delta_seconds]

\* mutant: a full buffer drops the new sample
PushSample_DropNew(samples, sample) ==
    IF Len(Append(samples, sample)) > MAX_SAMPLES THEN samples
    ELSE Append(samples, sample)

\* process_mouse_input, lines 67-70: the sample is pushed to the back and the
\* front is popped when the buffer holds more than max_samples
PushSample(samples, sample) ==
    IF Len(Append(samples, sample)) > MAX_SAMPLES THEN Tail(Append(samples, sample))
    ELSE Append(samples, sample)

\* process_mouse_input, lines 51-71: the loop over the first k events
RECURSIVE PushSamples(_, _, _, _, _)
PushSamples(samples, events, k, multiplier, delta_seconds) ==
    IF k = 0 THEN samples
    ELSE PushSample(PushSamples(samples, events, k - 1, multiplier, delta_seconds),
                    Sample(events[k], multiplier, delta_seconds))

\* process_mouse_input: events are the MouseMotion events its reader holds
ProcessMouseInput(buffer, events, delta_seconds) ==
    IF delta_seconds = 0 THEN buffer                                  \* line 49
    ELSE [buffer EXCEPT !.samples =
             PushSamples(@, events, Len(events), buffer.sensitivity_multiplier,
                         delta_seconds)]

\* apply_sensitivity_curve
ApplySensitivityCurve(buffer, params) ==
    IF buffer.samples # << >>
    THEN [buffer EXCEPT !.sensitivity_multiplier =
             CalculateSensitivityMultiplier(buffer.samples[Len(buffer.samples)].speed,
                                            params)]
    ELSE buffer

\* update_camera, lines 63-65
RECURSIVE SumDeltas(_, _)
SumDeltas(events, k) ==
    IF k = 0 THEN << 0, 0 >>
    ELSE LET rest == SumDeltas(events, k - 1)
         IN  << rest[1] + events[k][1], rest[2] + events[k][2] >>

\* update_camera, lines 74-78
Rotate(camera, delta) ==
    [yaw |-> camera.yaw - delta[1],
     pitch |-> Clamp(camera.pitch - delta[2], -PITCH_LIMIT, PITCH_LIMIT)]

\* update_camera: locked is window.cursor.grab_mode == Locked of the one
\* primary window
UpdateCamera(camera, events, locked) ==
    IF ~locked THEN camera                                            \* lines 51-59
    ELSE IF SumDeltas(events, Len(events)) # << 0, 0 >>
         THEN Rotate(camera, SumDeltas(events, Len(events)))
         ELSE camera

\* One frame: process_mouse_input, then apply_sensitivity_curve, then
\* update_camera (SensitivityPlugin, lines 134-138).  events are the frame's
\* MouseMotion events; a reader that did not read keeps the events for one
\* more frame.  The resource CurveParameters is never written.
CamFrame(events, delta_seconds, locked) ==
    \E sampled \in {ProcessMouseInput(mouse_buffer, mouse_unread \o events,
                                      delta_seconds)} :
    \E curved \in {ApplySensitivityCurve(sampled, CurveParametersDefault)} :
    \E turned \in {UpdateCamera(fps_camera, events, locked)} :
    \E raw \in {SumDeltas(events, Len(events))} :
        /\ Len(curved.samples) <= MaxSamples
        /\ Abs(turned.yaw) <= MaxAngle
        /\ Abs(turned.pitch) <= MaxAngle
        /\ mouse_buffer' = curved
        /\ mouse_unread' = IF delta_seconds = 0 THEN events ELSE << >>
        /\ fps_camera' = turned
        /\ cam_hist' = [raw |-> raw,
                        sampled |-> delta_seconds # 0 /\ events # << >>,
                        moved |-> turned # fps_camera,
                        turn |-> << fps_camera.yaw - turned.yaw,
                                    fps_camera.pitch - turned.pitch >>]

\* a frame lasts no time or one unit of time
CamStep ==
    /\ \E events \in EventSeqs, delta_seconds \in {0, 1}, locked \in BOOLEAN :
          CamFrame(events, delta_seconds, locked)
    /\ UNCHANGED <<seqVars, clickVars, targetVars, calibVars, guardVars, moveVars,
                   tuneVars, sensVars, health_in, lastVars>>

CamNext == CamStep

\* -------------------------------- target.rs: update_target_health on its own
HealthInNone == [called |-> FALSE, before |-> << >>, after |-> << >>, despawn |-> {}]

HealthIdle == health_in = HealthInNone

\* the Target components the query can hold
TargetKinds ==
    [health : 1..MaxHealth, points : {DEFAULT_POINTS, 2 * DEFAULT_POINTS},
     destroy_on_hit : BOOLEAN, spawning : {FALSE}, life : {NewTimer}]

\* the TargetHitEvents a call can read, for n targets; entity n + 1 is not in
\* the query
HitEventSeqs(n) ==
    UNION { [1..k -> [target_entity : 1..(n + 1), damage : 0..MaxDamage]] :
            k \in 0..MaxHitEvents }

HealthInit ==
    /\ \E n \in 1..MaxHealthTargets :
          /\ targets \in [1..n -> TargetKinds]
          /\ hit_events \in HitEventSeqs(n)
    /\ spawner = NewTimer
    /\ score_tracker = ScoreTrackerDefault
    /\ destroyed_events = << >>
    /\ frame_in = [fired |-> FALSE, view |-> "ok"]
    /\ shot_hist = [shots |-> 0, hitting |-> 0]
    /\ schedule = [lifeLate |-> FALSE, spawnLate |-> FALSE]
    /\ hit_in = HitInNone
    /\ health_in = HealthInNone

\* one call of update_target_health and the application of its commands
HealthCall ==
    /\ ~health_in.called
    /\ \E r \in {UpdateTargetHealth(targets, hit_events, Len(hit_events))} :
          /\ destroyed_events' = r.destroyed
          /\ targets' = Despawn(r.ts, r.despawn, Len(r.ts))
          /\ health_in' = [called |-> TRUE, before |-> targets, after |-> r.ts,
                           despawn |-> r.despawn]
    /\ UNCHANGED <<seqVars, clickVars, calibVars, guardVars, moveVars, tuneVars,
                   sensVars, camVars, lastVars, hit_events, spawner, score_tracker, frame_in,
                   shot_hist, schedule, hit_in>>

HealthNext == HealthCall


\* ------------------------------------------ main.rs: update_target_movements
\* Lengths are grid points (UnitsPerMetre to the metre), speeds metres per
\* second, times ticks.  A velocity is an integer vector: its direction is one
\* of the sign patterns, each moving component as long as max_speed.

MovementPatterns == {"Linear", "Circular", "Random", "Reactive", "Smooth", "Evasive"}

Vec3(x, y, z) == [x |-> x, y |-> y, z |-> z]

Vec3Zero == Vec3(0, 0, 0)

Metres(m) == m * UnitsPerMetre

\* z = -ARENA_DEPTH/2.0 + 5.0 and the box the arms clamp to
ArenaZMin == Metres(5 - (ARENA_DEPTH \div 2))

ArenaZMax == ArenaZMin + Metres(30)

ArenaYMin == Metres(5)

ArenaYMax == Metres(ARENA_HEIGHT - 5)

\* spawn_target_with_movement: velocity zero, timer 0, start_position the position
SpawnTargetWithMovement(pos, pattern, max_speed) ==
    [pattern |-> pattern, translation |-> pos, velocity |-> Vec3Zero,
     timer |-> 0, start_position |-> pos, max_speed |-> max_speed]

\* spawn_target_in_fov: z on the front line, x in [-|z|, |z|), y in [5, 45);
\* the ends and the middle of the ranges
SpawnInFovPositions ==
    {Vec3(x, y, ArenaZMin) : x \in {ArenaZMin, 0, -ArenaZMin - 1},
                             y \in {ArenaYMin, ArenaYMax - 1}}

\* the moving targets spawn_scenario_targets creates, one per pattern and place
SpawnedTargets ==
    {SpawnTargetWithMovement(p, "Random", 10) : p \in SpawnInFovPositions}
    \cup {SpawnTargetWithMovement(Vec3(Metres((i - 1) * 15), Metres(10 + i * 5), ArenaZMin),
                                  "Linear", 5) : i \in 0..2}
    \cup {SpawnTargetWithMovement(Vec3(0, Metres(15), ArenaZMin + Metres(5)), "Circular", 3),
          SpawnTargetWithMovement(Vec3(0, Metres(15), ArenaZMin + Metres(5)), "Reactive", 15),
          SpawnTargetWithMovement(Vec3(0, Metres(15), ArenaZMin + Metres(5)), "Smooth", 8)}
    \cup {SpawnTargetWithMovement(Vec3(Metres((i - 1) * 20), Metres(10 + i * 5),
                                       ArenaZMin + Metres(5)), "Evasive", 12) : i \in 0..2}

\* camera_query.get_single().ok() when there is no camera
CameraNone == [present |-> FALSE, x |-> 0, z |-> 0]

ArenaInNone == [frames |-> 0, delta |-> 0, draw |-> Vec3Zero, camera |-> CameraNone]

ArenaIdle ==
    /\ arena_target = SpawnTargetWithMovement(Vec3(0, Metres(15), ArenaZMin + Metres(5)),
                                              "Circular", 3)
    /\ arena_in = ArenaInNone

ArenaInit ==
    /\ arena_target \in SpawnedTargets
    /\ arena_in = ArenaInNone

\* the directions a redraw can give: x and z from (-1, 1), y zero for Linear
\* and from a narrower range otherwise; normalize() needs a nonzero vector
Directions(pattern) ==
    {Vec3(x, y, z) : x \in {-1, 0, 1}, z \in {-1, 0, 1},
                     y \in IF pattern = "Linear" THEN {0} ELSE {-1, 0, 1}}
    \ {Vec3Zero}

\* velocity * delta, in grid points
Displacement(v, delta) == (v * delta * UnitsPerMetre) \div TicksPerSecond

\* whether the arm draws a new velocity, the timer already advanced
Redraws(m, timer) ==
    CASE m.pattern = "Linear" -> m.velocity = Vec3Zero
      [] m.pattern = "Random" -> m.velocity = Vec3Zero \/ timer > 2 * TicksPerSecond
      [] m.pattern = "Reactive" -> 2 * timer > TicksPerSecond
      [] OTHER -> FALSE

\* cos and sin of an angle of q quarter turns
CosQ(q) == CASE q % 4 = 0 -> 1 [] q % 4 = 2 -> -1 [] OTHER -> 0

SinQ(q) == CASE q % 4 = 1 -> 1 [] q % 4 = 3 -> -1 [] OTHER -> 0

\* translation.clamp(bounds_min, bounds_max), fov_width taken from the z of p
ClampToFov(p) ==
    Vec3(Clamp(p.x, -Abs(p.z), Abs(p.z)),
         Clamp(p.y, ArenaYMin, ArenaYMax),
         Clamp(p.z, ArenaZMin, ArenaZMax))

\* the Linear, Random and Reactive arms after the draw: move, turn the
\* velocity's components that left the box, clamp
MoveAndBounce(pos, v, delta) ==
    LET p == Vec3(pos.x + Displacement(v.x, delta),
                  pos.y + Displacement(v.y, delta),
                  pos.z + Displacement(v.z, delta))
    IN  [translation |-> ClampToFov(p),
         velocity |->
            Vec3(IF p.x < -Abs(p.z) \/ p.x > Abs(p.z) THEN -v.x ELSE v.x,
                 IF p.y < ArenaYMin \/ p.y > ArenaYMax THEN -v.y ELSE v.y,
                 IF p.z < ArenaZMin \/ p.z > ArenaZMax THEN -v.z ELSE v.z)]

\* one target's turn of the loop.  draw is the direction a redraw gives,
\* camera the horizontal direction to the camera, if there is one.  The tick of a
\* Circular target turns its angle a quarter turn, the tick of a Smooth one
\* turns 2 * time a quarter turn.
UpdateTargetMovements(m, delta, draw, camera) ==
    LET timer == m.timer + delta
        z_base == Metres(15 - (ARENA_DEPTH \div 2))
    IN  CASE m.pattern \in {"Linear", "Random", "Reactive"} ->
               LET redraw == Redraws(m, timer)
                   v == IF redraw
                        THEN Vec3(draw.x * m.max_speed, draw.y * m.max_speed,
                                  draw.z * m.max_speed)
                        ELSE m.velocity
                   r == MoveAndBounce(m.translation, v, delta)
               IN  [m EXCEPT !.translation = r.translation, !.velocity = r.velocity,
                             !.timer = IF redraw /\ m.pattern # "Linear" THEN 0 ELSE timer]
          [] m.pattern = "Circular" ->
               [m EXCEPT !.timer = timer,
                         !.translation =
                             ClampToFov(Vec3(m.start_position.x + Metres(15) * CosQ(timer),
                                             m.start_position.y
                                                 + ((Metres(15) * 3) \div 10) * SinQ(timer),
                                             z_base + ((Metres(15) * 2) \div 10)
                                                          * (1 - CosQ(timer))))]
          [] m.pattern = "Smooth" ->
               [m EXCEPT !.timer = timer,
                         !.translation =
                             ClampToFov(Vec3(m.start_position.x + Metres(15) * SinQ(timer),
                                             m.start_position.y
                                                 + (Metres(8) \div 2) * SinQ(timer),
                                             z_base))]
          [] m.pattern = "Evasive" ->
               IF ~camera.present
               THEN [m EXCEPT !.timer = timer]
               ELSE [m EXCEPT !.timer = timer,
                              !.translation =
                                  ClampToFov(Vec3(m.translation.x
                                                    + Displacement(camera.z * m.max_speed, delta),
                                                  m.translation.y,
                                                  m.translation.z
                                                    + Displacement(-camera.x * m.max_speed, delta)))]

\* the horizontal directions from the target to the camera, or no camera
Cameras ==
    {CameraNone}
    \cup ({[present |-> TRUE, x |-> x, z |-> z] : x \in {-1, 0, 1}, z \in {-1, 0, 1}}
          \ {[present |-> TRUE, x |-> 0, z |-> 0]})

\* a frame: the inputs the target's arm does not read are held fixed
ArenaFrame(delta, draw, camera) ==
    /\ arena_in.frames < MaxArenaFrames
    /\ arena_target.timer + delta <= MaxArenaTimer
    /\ arena_target' = UpdateTargetMovements(arena_target, delta, draw, camera)
    /\ arena_in' = [frames |-> arena_in.frames + 1, delta |-> delta, draw |-> draw,
                    camera |-> camera]

ArenaStep ==
    /\ \E delta \in 1..MaxArenaDelta :
         \E draw \in IF Redraws(arena_target, arena_target.timer + delta)
                     THEN Directions(arena_target.pattern) ELSE {Vec3Zero} :
           \E camera \in IF arena_target.pattern = "Evasive" THEN Cameras ELSE {CameraNone} :
             ArenaFrame(delta, draw, camera)
    /\ UNCHANGED <<seqVars, clickVars, targetVars, calibVars, guardVars, moveVars,
                   tuneVars, sensVars, camVars, health_in, arenaRest>>

ArenaNext == ArenaStep


\* --------------------------------- main.rs: click_targets, the shots counted
TallyIdle == shot_tally = [hits |-> 0, others |-> 0]

TallyInit == TallyIdle

\* one frame of click_targets; an accepted shot is counted by what the ray hit
TallyFrame(delta, pressed, hit) ==
    LET accepted == pressed /\ ~CoolingDown(shoot_tracker + delta)
    IN
    /\ accepted => shot_tally.hits + shot_tally.others < MaxTally
    /\ ClickTargets(delta, pressed, hit)
    /\ shot_tally' =
          IF ~accepted THEN shot_tally
          ELSE IF hit = "target" THEN [shot_tally EXCEPT !.hits = @ + 1]
          ELSE [shot_tally EXCEPT !.others = @ + 1]

TallyStep ==
    /\ \E delta \in 0..MaxClickDelta, pressed \in BOOLEAN,
          hit \in {"target", "other", "none"} :
          TallyFrame(delta, pressed, hit)
    /\ UNCHANGED <<scenario_state, seq_out, seq_hist, targetVars, calibVars, guardVars,
                   moveVars, tuneVars, sensVars, camVars, health_in, tallyRest>>

TallyNext == TallyStep


\* ----------------------------------- oldCalibrationFile.rs: CalibrationSystem
\* A profile is its name and its dpi, the other measurements are handled the
\* same way; the time stamps are left out.  profiles and data are maps, kept as
\* functions on the keys they hold.

ProfileNames == {"Default", "Custom", "Guest"}

\* the dpi a session can measure
DataNumbers == {1600}

CalibrationProfileDefault == [name |-> "Default", dpi |-> DEFAULT_DPI]

CalibrationProfiles == [name : ProfileNames, dpi : {DEFAULT_DPI} \cup DataNumbers]

SessionNone ==
    [open |-> FALSE, session_type |-> "None", steps |-> << >>, current_step |-> 0,
     completed |-> {}, data |-> << >>]

\* impl Default for CalibrationSystem
CalibrationSystemDefault ==
    [active_profile |-> "Default",
     profiles |-> [n \in {"Default"} |-> CalibrationProfileDefault],
     current_calibration |-> SessionNone,
     calibration_history |-> << >>]

CalsysOutNone == [op |-> "none", arg |-> "none", ok |-> FALSE]

CalsysIdle ==
    /\ calibration_system = CalibrationSystemDefault
    /\ calsys_out = CalsysOutNone

CalsysInit == CalsysIdle

\* HashMap::remove
Remove(map, key) == [k \in DOMAIN map \ {key} |-> map[k]]

SetActiveProfile(sys, name) ==
    IF name \in DOMAIN sys.profiles
    THEN [sys |-> [sys EXCEPT !.active_profile = name], ok |-> TRUE]
    ELSE [sys |-> sys, ok |-> FALSE]

AddProfile(sys, profile) ==
    IF profile.name \notin DOMAIN sys.profiles
    THEN [sys |-> [sys EXCEPT !.profiles = Insert(@, profile.name, profile)], ok |-> TRUE]
    ELSE [sys |-> sys, ok |-> FALSE]

\* mutant: the profile "Default" can be removed like any other
RemoveProfile_Any(sys, name) ==
    IF name \in DOMAIN sys.profiles
    THEN [sys |-> [sys EXCEPT !.profiles = Remove(@, name),
                              !.active_profile = IF @ = name THEN "Default" ELSE @],
          ok |-> TRUE]
    ELSE [sys |-> sys, ok |-> FALSE]

RemoveProfile(sys, name) ==
    IF name # "Default" /\ name \in DOMAIN sys.profiles
    THEN [sys |-> [sys EXCEPT !.profiles = Remove(@, name),
                              !.active_profile = IF @ = name THEN "Default" ELSE @],
          ok |-> TRUE]
    ELSE [sys |-> sys, ok |-> FALSE]

\* import_profiles: the loop over the parsed profiles
RECURSIVE InsertAll(_, _, _)
InsertAll(map, ps, k) ==
    IF k = 0 THEN map
    ELSE Insert(InsertAll(map, ps, k - 1), ps[k].name, ps[k])

\* import_profiles: json is what serde_json::from_str makes of the text, the
\* list of its profiles or an error
ImportProfiles(sys, json) ==
    IF json.parsed
    THEN [sys |-> [sys EXCEPT !.profiles = InsertAll(@, json.profiles, Len(json.profiles))],
          ok |-> TRUE]
    ELSE [sys |-> sys, ok |-> FALSE]

JsonError == [parsed |-> FALSE, profiles |-> << >>]

JsonTexts ==
    {JsonError}
    \cup {[parsed |-> TRUE, profiles |-> ps] :
            ps \in UNION {[1..n -> CalibrationProfiles] : n \in 0..MaxImport}}

\* start_calibration: the data keys of the steps of a session type
SessionTypes == {"Sensitivity", "Dpi", "MonitorDistance", "Fov", "InputLatency", "Full"}

StepsOf(session_type) ==
    CASE session_type = "Sensitivity" -> << "sensitivity" >>
      [] session_type = "Dpi" -> << "dpi" >>
      [] session_type = "MonitorDistance" -> << "monitor_distance", "monitor_size" >>
      [] session_type = "Fov" -> << "fov" >>
      [] session_type = "InputLatency" -> << "latency" >>
      [] session_type = "Full" -> << "dpi", "monitor", "fov", "sensitivity", "latency" >>

\* mutant: a running session is replaced by the new one
StartCalibration_Replace(sys, session_type) ==
    [sys |-> [sys EXCEPT !.current_calibration =
                            [open |-> TRUE, session_type |-> session_type,
                             steps |-> StepsOf(session_type), current_step |-> 0,
                             completed |-> {}, data |-> << >>]],
     ok |-> TRUE]

StartCalibration(sys, session_type) ==
    IF sys.current_calibration.open
    THEN [sys |-> sys, ok |-> FALSE]
    ELSE [sys |-> [sys EXCEPT !.current_calibration =
                                 [open |-> TRUE, session_type |-> session_type,
                                  steps |-> StepsOf(session_type), current_step |-> 0,
                                  completed |-> {}, data |-> << >>]],
          ok |-> TRUE]

\* get_active_profile_mut: an active_profile that names no profile falls back
GetActiveProfileMut(sys) ==
    IF sys.active_profile \notin DOMAIN sys.profiles
    THEN [sys EXCEPT !.active_profile = "Default"]
    ELSE sys

\* complete_calibration: the Number entries of the session's data
NumberValues(data) ==
    [k \in {j \in DOMAIN data : data[j].kind = "Number"} |-> data[k].value]

\* complete_calibration; the result is kept with its session type, profile
\* name and values
CompleteCalibration(sys) ==
    IF ~sys.current_calibration.open
    THEN [sys |-> sys, ok |-> FALSE]
    ELSE LET session == sys.current_calibration
             values == NumberValues(session.data)
             result == [session_type |-> session.session_type,
                        profile_name |-> sys.active_profile,
                        values |-> values]
             s1 == [sys EXCEPT !.current_calibration = SessionNone,
                               !.calibration_history = Append(@, result)]
             s2 == GetActiveProfileMut(s1)
         IN  [sys |-> IF "dpi" \in DOMAIN values
                      THEN [s2 EXCEPT !.profiles[s2.active_profile].dpi = values["dpi"]]
                      ELSE s2,
              ok |-> TRUE]

NextCalibrationStep(sys) ==
    IF ~sys.current_calibration.open
    THEN [sys |-> sys, ok |-> FALSE]
    ELSE LET session == sys.current_calibration
             done == [sys EXCEPT !.current_calibration.completed =
                                     @ \cup {session.current_step}]
         IN  IF session.current_step < Len(session.steps) - 1
             THEN [sys |-> [done EXCEPT !.current_calibration.current_step = @ + 1],
                   ok |-> TRUE]
             ELSE [sys |-> CompleteCalibration(done).sys, ok |-> FALSE]

PreviousCalibrationStep(sys) ==
    IF sys.current_calibration.open /\ sys.current_calibration.current_step > 0
    THEN [sys |-> [sys EXCEPT !.current_calibration.current_step = @ - 1], ok |-> TRUE]
    ELSE [sys |-> sys, ok |-> FALSE]

CalibrationDatas ==
    {[kind |-> "Number", value |-> v] : v \in DataNumbers}
    \cup {[kind |-> "TimeSeries", value |-> 0]}

SetCalibrationData(sys, key, data) ==
    IF sys.current_calibration.open
    THEN [sys |-> [sys EXCEPT !.current_calibration.data = Insert(@, key, data)],
          ok |-> TRUE]
    ELSE [sys |-> sys, ok |-> FALSE]

CancelCalibration(sys) ==
    IF sys.current_calibration.open
    THEN [sys |-> [sys EXCEPT !.current_calibration = SessionNone], ok |-> TRUE]
    ELSE [sys |-> sys, ok |-> FALSE]

\* a call of a method: the system it leaves and what it returned
CalsysCall(op, arg, r) ==
    /\ Len(r.sys.calibration_history) <= MaxHistory
    /\ calibration_system' = r.sys
    /\ calsys_out' = [op |-> op, arg |-> arg, ok |-> r.ok]
    /\ UNCHANGED <<seqVars, clickVars, targetVars, calibVars, guardVars, moveVars,
                   tuneVars, sensVars, camVars, health_in, calsysRest>>

CallSetActiveProfile ==
    \E name \in ProfileNames :
        CalsysCall("set_active_profile", name, SetActiveProfile(calibration_system, name))

CallAddProfile ==
    \E profile \in CalibrationProfiles :
        CalsysCall("add_profile", profile.name, AddProfile(calibration_system, profile))

CallRemoveProfile ==
    \E name \in ProfileNames :
        CalsysCall("remove_profile", name, RemoveProfile(calibration_system, name))

CallImportProfiles ==
    \E json \in JsonTexts :
        CalsysCall("import_profiles", IF json.parsed THEN "json" ELSE "error",
                   ImportProfiles(calibration_system, json))

CallStartCalibration ==
    \E session_type \in SessionTypes :
        CalsysCall("start_calibration", session_type,
                   StartCalibration(calibration_system, session_type))

CallNextCalibrationStep ==
    CalsysCall("next_calibration_step", "none", NextCalibrationStep(calibration_system))

CallPreviousCalibrationStep ==
    CalsysCall("previous_calibration_step", "none",
               PreviousCalibrationStep(calibration_system))

CallSetCalibrationData ==
    \E data \in CalibrationDatas :
        CalsysCall("set_calibration_data", "dpi",
                   SetCalibrationData(calibration_system, "dpi", data))

CallCompleteCalibration ==
    CalsysCall("complete_calibration", "none", CompleteCalibration(calibration_system))

CallCancelCalibration ==
    CalsysCall("cancel_calibration", "none", CancelCalibration(calibration_system))

\* the methods that edit the profiles
CalsysNext ==
    \/ CallSetActiveProfile
    \/ CallAddProfile
    \/ CallRemoveProfile
    \/ CallImportProfiles

\* the methods of a calibration session
SessionNext ==
    \/ CallStartCalibration
    \/ CallNextCalibrationStep
    \/ CallPreviousCalibrationStep
    \/ CallSetCalibrationData
    \/ CallCompleteCalibration
    \/ CallCancelCalibration


\* ------------------------------- input.rs: process_mouse_input, buffer filled
BufferInNone == [frames |-> 0, read |-> << >>, delta_seconds |-> 0]

BufferIdle == buffer_in = BufferInNone

\* the buffer after n frames of one unit of time with one event of one pixel
\* along x each: the first sample is taken with the multiplier 1.0, the later
\* ones with the multiplier apply_sensitivity_curve stores for that speed
FilledBuffer(n) ==
    \E m \in {CalculateSensitivityMultiplier(1, CurveParametersDefault)} :
       mouse_buffer =
          IF n = 0 THEN MouseInputBufferDefault
          ELSE [samples |-> [k \in 1..n |->
                                IF k = 1
                                THEN Sample(<< 1, 0 >>, R(1), 1)
                                ELSE Sample(<< 1, 0 >>, m, 1)],
                sensitivity_multiplier |-> m]

\* the buffer is empty, one short of full, or full
BufferInit ==
    /\ \/ FilledBuffer(0)
       \/ FilledBuffer(MAX_SAMPLES - 1)
       \/ FilledBuffer(MAX_SAMPLES)
    /\ mouse_unread = << >>
    /\ fps_camera = FpsCameraDefault
    /\ cam_hist = CamHistNone
    /\ buffer_in = BufferInNone

\* the events of a frame: each moves the pointer one pixel along x or along y
BufferEventSeqs ==
    UNION { [1..n -> {<< 1, 0 >>, << 0, 1 >>}] : n \in 0..MaxBufferEvents }

\* process_mouse_input, then apply_sensitivity_curve
BufferFrame(events, delta_seconds) ==
    \E read \in {IF delta_seconds = 0 THEN << >> ELSE mouse_unread \o events} :
    \E sampled \in {ProcessMouseInput(mouse_buffer, mouse_unread \o events,
                                      delta_seconds)} :
        /\ buffer_in.frames < MaxBufferFrames
        /\ mouse_buffer' = ApplySensitivityCurve(sampled, CurveParametersDefault)
        /\ mouse_unread' = IF delta_seconds = 0 THEN events ELSE << >>
        /\ buffer_in' = [frames |-> buffer_in.frames + 1, read |-> read,
                         delta_seconds |-> delta_seconds]

BufferStep ==
    /\ \E events \in BufferEventSeqs, delta_seconds \in {0, 1} :
          BufferFrame(events, delta_seconds)
    /\ UNCHANGED <<seqVars, clickVars, targetVars, calibVars, guardVars, moveVars,
                   tuneVars, sensVars, fps_camera, cam_hist, health_in, bufferRest>>

BufferNext == BufferStep

LastIdle == ArenaIdle /\ TallyIdle /\ CalsysIdle /\ BufferIdle

LateIdle == CamInit /\ HealthIdle /\ LastIdle

\* the subsystems with a specification of their own, left alone
AuxIdle == GuardInit /\ MoveIdle /\ TuneInit /\ SensIdle /\ LateIdle

\* ------------------------------------------- detect_target_hits on its own
QueryOrders(n) ==
    {o \in [1..n -> 1..n] : \A i, j \in 1..n : o[i] = o[j] => i = j}

\* the inputs of one call: whether the fire button was just pressed, what
\* of the window, the camera and the ray exists, the order in which the
\* query iterates, and for each target the distance at which the ray
\* intersects it, in 1..MaxDist, or 0 for no intersection
HitInputs(n) ==
    [fired : BOOLEAN,
     view : {"ok", "no_window", "no_camera", "no_ray"},
     order : QueryOrders(n),
     dist : [1..n -> 0..MaxDist],
     called : {FALSE}]

\* a world of n targets as the spawner makes them, and the inputs of the call
HitInit ==
    /\ SeqInit /\ ClickInit /\ CalibIdle /\ AuxIdle
    /\ \E n \in 0..MaxHitTargets :
          /\ targets = [e \in 1..n |-> SpawnedTarget]
          /\ hit_in \in HitInputs(n)
    /\ spawner = NewTimer
    /\ score_tracker = ScoreTrackerDefault
    /\ hit_events = << >>
    /\ destroyed_events = << >>
    /\ frame_in = [fired |-> FALSE, view |-> "ok"]
    /\ shot_hist = [shots |-> 0, hitting |-> 0]
    /\ schedule = [lifeLate |-> FALSE, spawnLate |-> FALSE]

\* one call of detect_target_hits
DetectCall ==
    /\ ~hit_in.called
    /\ hit_events' = DetectTargetHits(hit_in.fired, hit_in.view, hit_in.order,
                                      targets, hit_in.dist)
    /\ hit_in' = [hit_in EXCEPT !.called = TRUE]
    /\ UNCHANGED <<seqVars, clickVars, calibVars, auxVars, targets, spawner,
                   score_tracker, destroyed_events, frame_in, shot_hist,
                   schedule>>

HitNext == DetectCall

\* --------------------------------------------------------- specifications
\* Each specification follows one subsystem; the schedule choices of the
\* subsystems it leaves alone are fixed.
Init == SeqInit /\ ClickInit /\ TargetIdle /\ CalibIdle /\ AuxIdle

InitTarget == SeqInit /\ ClickInit /\ TargetInit /\ CalibIdle /\ AuxIdle

InitCalib == SeqInit /\ ClickInit /\ TargetIdle /\ CalibInit /\ AuxIdle

\* the world of the frames with entities missing: two targets of the spawner
InitGuard ==
    /\ SeqInit /\ ClickInit /\ CalibIdle /\ GuardInit /\ MoveIdle /\ TuneInit
    /\ SensIdle /\ LateIdle
    /\ targets = << SpawnedTarget, SpawnedTarget >>
    /\ spawner = NewTimer
    /\ score_tracker = ScoreTrackerDefault
    /\ hit_events = << >>
    /\ destroyed_events = << >>
    /\ frame_in = [fired |-> FALSE, view |-> "ok"]
    /\ shot_hist = [shots |-> 0, hitting |-> 0]
    /\ schedule = [lifeLate |-> FALSE, spawnLate |-> FALSE]
    /\ hit_in = HitInNone

InitMove ==
    /\ SeqInit /\ ClickInit /\ TargetIdle /\ CalibIdle
    /\ GuardInit /\ MoveInit /\ TuneInit /\ SensIdle /\ LateIdle

InitHealth ==
    /\ SeqInit /\ ClickInit /\ CalibIdle
    /\ GuardInit /\ MoveIdle /\ TuneInit /\ SensIdle /\ CamInit /\ HealthInit
    /\ LastIdle

InitSens ==
    /\ SeqInit /\ ClickInit /\ TargetIdle /\ CalibIdle
    /\ GuardInit /\ MoveIdle /\ TuneInit /\ SensInit /\ LateIdle

SpecSeq == Init /\ [][SeqNext]_vars

\* the engine keeps running frames and its clock keeps advancing
SpecSeqFair == Init /\ [][SeqNext]_vars /\ WF_vars(SeqAdvance)

SpecPlay == Init /\ [][PlayNext]_vars

SpecClick == Init /\ [][ClickNext]_vars

SpecTarget == InitTarget /\ [][TargetNext]_vars

SpecHit == HitInit /\ [][HitNext]_vars

SpecGuard == InitGuard /\ [][GuardNext]_vars

SpecMove == InitMove /\ [][MoveNext]_vars

SpecTune == Init /\ [][TuneNext]_vars

SpecSens == InitSens /\ [][SensNext]_vars


\* the sections before the last ones at rest
BaseIdle ==
    /\ SeqInit /\ ClickInit /\ TargetIdle /\ CalibIdle /\ GuardInit /\ MoveIdle
    /\ TuneInit /\ SensIdle /\ CamInit /\ HealthIdle

InitArena == BaseIdle /\ ArenaInit /\ TallyIdle /\ CalsysIdle /\ BufferIdle

SpecArena == InitArena /\ [][ArenaNext]_vars

InitTally == BaseIdle /\ TallyInit /\ ArenaIdle /\ CalsysIdle /\ BufferIdle

SpecTally == InitTally /\ [][TallyNext]_vars

InitCalsys == BaseIdle /\ CalsysInit /\ ArenaIdle /\ TallyIdle /\ BufferIdle

SpecCalsys == InitCalsys /\ [][CalsysNext]_vars

InitBuffer ==
    /\ SeqInit /\ ClickInit /\ TargetIdle /\ CalibIdle /\ GuardInit /\ MoveIdle
    /\ TuneInit /\ SensIdle /\ HealthIdle /\ BufferInit
    /\ ArenaIdle /\ TallyIdle /\ CalsysIdle

SpecBuffer == InitBuffer /\ [][BufferNext]_vars

SpecSession == InitCalsys /\ [][SessionNext]_vars

SpecEdit == Init /\ [][EditNext]_vars

SpecHealth == InitHealth /\ [][HealthNext]_vars

SpecCam == Init /\ [][CamNext]_vars

SpecCalib == InitCalib /\ [][CalibNext]_vars

\* the engine keeps running frames and its clock keeps advancing
SpecCalibFair == InitCalib /\ [][CalibNext]_vars /\ WF_vars(CalibAdvance)

\* ---------------------------------------------------- sequencer: claims
Completed == seq_hist.done /\ ~scenario_state.has_started

ReportedCompletion ==
    \E i \in 1..Len(seq_out) : seq_out[i] = "All scenarios completed!"

\* phase counts of a run: an Active phase has had its own Delay phase before
\* it, and a completed run has had NumScenarios Active phases
C1_Phases ==
    /\ Phase(scenario_state) = "active" =>
          /\ seq_hist.delays = seq_hist.actives
          /\ seq_hist.actives = scenario_state.current_index + 1
    /\ Phase(scenario_state) = "delay" =>
          /\ seq_hist.delays = seq_hist.actives + 1
          /\ seq_hist.actives = scenario_state.current_index
    /\ Completed =>
          /\ seq_hist.actives = NumScenarios
          /\ seq_hist.delays = NumScenarios + 1
          /\ ~scenario_state.is_active

\* an Active phase is entered from a Delay phase only, and the not-started
\* state is left through a Delay phase only
C1_Step ==
    /\ (Phase(scenario_state') = "active" /\ Phase(scenario_state) # "active")
          => Phase(scenario_state) = "delay"
    /\ (Phase(scenario_state) = "idle" /\ Phase(scenario_state') # "idle")
          => Phase(scenario_state') = "delay"

\* C1: from the not-started state one accepted start action leads, as frame
\* time advances, through exactly NumScenarios Active phases, each entered
\* from a Delay phase, and then back to the not-started state with
\* has_started = FALSE and is_active = FALSE.
C1_StartRunsAllScenarios ==
    /\ [](C1_Phases)
    /\ [][C1_Step]_vars
    /\ (scenario_state.has_started ~> Completed)

C1_Witness ==
    /\ Completed
    /\ seq_hist.actives = NumScenarios
    /\ scenario_state.current_index = NumScenarios

\* the time a run takes from the frame of the start action to the frame that
\* reports completion, without the frame granularity
RunTicks ==
    NumScenarios * ScenarioDurationTicks + (NumScenarios + 1) * ScenarioDelayTicks

C3_IndexInRange ==
    /\ scenario_state.current_index \in 0..NumScenarios
    /\ scenario_state.current_index = NumScenarios =>
          seq_hist.actives = NumScenarios

C3_Witness ==
    /\ scenario_state.current_index = NumScenarios
    /\ scenario_state.has_started
    /\ scenario_state.delay_timer.elapsed > 0

\* C4 as stated: once current_index equals the length of the list, no later
\* frame and no later start action changes current_index or starts an Active
\* phase.
C4_Original ==
    [][scenario_state.current_index = NumScenarios =>
          /\ scenario_state'.current_index = NumScenarios
          /\ ~scenario_state'.is_active]_vars

\* C4 as amended: once current_index equals the length of the list, no frame
\* starts an Active phase, and current_index changes only when a start action
\* is accepted after completion has been reported (has_started = FALSE): that
\* frame resets current_index to 0 and begins a new run with a Delay phase.
\* While the last delay is still running a start action changes nothing.
C4_TerminalUntilRestart ==
    [][scenario_state.current_index = NumScenarios =>
          /\ ~scenario_state'.is_active
          /\ scenario_state.has_started =>
                scenario_state'.current_index = NumScenarios
          /\ scenario_state'.current_index # NumScenarios =>
                /\ ~scenario_state.has_started
                /\ scenario_state'.current_index = 0
                /\ Phase(scenario_state') = "delay"
                /\ seq_out'[1] = "Starting aim test sequence"]_vars

C4_Witness ==
    /\ seq_hist.restarted
    /\ scenario_state.has_started
    /\ scenario_state.current_index = 0
    /\ seq_out = << "Starting aim test sequence" >>

\* -------------------------------------------------- click_targets: claims
\* C8: a fire action is processed only when more than 0.1 s has accumulated
\* on the stopwatch since the previous accepted shot (since the start, for
\* the first one), every accepted shot resets the stopwatch to zero whether
\* it hit a target, something else or nothing, and so two accepted shots are
\* more than 0.1 s of game time apart even with the button held down.
C8_Cooldown ==
    /\ shoot_tracker = click_hist.since
    /\ click_hist.shots > 0 => click_hist.gap > CooldownTicks
    /\ click_hist.last # "none" => shoot_tracker = 0

C8_Witness ==
    /\ click_hist.shots = 2
    /\ click_hist.last = "other"
    /\ click_hist.gap = CooldownTicks + 1
    /\ points = 0

\* ---------------------------------------------------- TargetPlugin: claims
ByHit(evs) == \E i \in 1..Len(evs) : evs[i].destroyed_by_hit

\* C5: after N >= 1 shots of which H hit a target, hits = H, misses = N - H
\* and accuracy = H / N * 100; before the first shot accuracy is 0.
C5_ScoreCounts ==
    /\ score_tracker.hits = shot_hist.hitting
    /\ score_tracker.misses = shot_hist.shots - shot_hist.hitting
    /\ shot_hist.shots >= 1 =>
          /\ score_tracker.accuracy[2] > 0
          /\ score_tracker.accuracy[1] * shot_hist.shots
                = score_tracker.accuracy[2] * shot_hist.hitting
    /\ shot_hist.shots = 0 => score_tracker.accuracy = <<0, 1>>

\* a miss, a hit and a miss: hits = 1, misses = 2, accuracy = 1/3 * 100
C5_Witness ==
    /\ shot_hist.shots = 3
    /\ score_tracker.hits = 1
    /\ score_tracker.misses = 2
    /\ score_tracker.accuracy = <<1, 3>>
    /\ ~score_tracker.hit_registered_this_frame
    /\ score_tracker.shots_fired_this_frame

\* C6: a frame in which the fire button was just pressed increments exactly
\* one of hits and misses by exactly 1, hits if a destroyed-by-hit event was
\* produced in that frame and misses otherwise; a frame without the button
\* edge leaves hits, misses and accuracy unchanged.
C6_Step ==
    IF frame_in'.fired
    THEN IF ByHit(destroyed_events')
         THEN /\ score_tracker'.hits = score_tracker.hits + 1
              /\ score_tracker'.misses = score_tracker.misses
         ELSE /\ score_tracker'.hits = score_tracker.hits
              /\ score_tracker'.misses = score_tracker.misses + 1
    ELSE /\ score_tracker'.hits = score_tracker.hits
         /\ score_tracker'.misses = score_tracker.misses
         /\ score_tracker'.accuracy = score_tracker.accuracy

C6_OneCountPerShot == [][C6_Step]_vars

\* a frame without a shot right after shots were counted: the flags are
\* reset and the counts kept
C6_Witness ==
    /\ ~frame_in.fired
    /\ score_tracker.hits = 1
    /\ score_tracker.misses = 1
    /\ ~score_tracker.shots_fired_this_frame
    /\ ~score_tracker.hit_registered_this_frame
    /\ Len(destroyed_events) > 0

Intersected == {e \in 1..Len(hit_in.dist) : hit_in.dist[e] > 0}

\* C7: detect_target_hits emits at most one TargetHitEvent; when the fire
\* button was pressed (window, camera and ray present) and the ray intersects
\* a target, the event names a target whose distance is the minimum among
\* the intersected targets, with damage 1; when no target is intersected no
\* event is emitted.
C7_NearestHit ==
    /\ Len(hit_events) <= 1
    /\ Intersected = {} => hit_events = << >>
    /\ ~hit_in.fired => hit_events = << >>
    /\ (hit_in.called /\ hit_in.fired /\ hit_in.view = "ok" /\ Intersected # {}) =>
          /\ Len(hit_events) = 1
          /\ hit_events[1].target_entity \in Intersected
          /\ \A e \in Intersected :
                hit_in.dist[hit_events[1].target_entity] <= hit_in.dist[e]
          /\ hit_events[1].damage = 1

\* two targets at different depths, the farther one first in the query
C7_Witness ==
    /\ hit_in.called
    /\ hit_in.fired
    /\ hit_in.view = "ok"
    /\ Len(targets) = 3
    /\ hit_in.order = <<2, 3, 1>>
    /\ hit_in.dist = <<1, 2, 0>>
    /\ hit_events = << [target_entity |-> 1, damage |-> 1] >>

\* ------------------------------------------------ calibration session: claims
ResultsBlock(json) ==
    << TextLine("AIM_TRAINER_RESULTS_START"), JsonLine(json),
       TextLine("AIM_TRAINER_RESULTS_END") >>

AllMetricKeys ==
    {MetricKey(k, f) : k \in 0..(TOTAL_SCENARIOS - 1), f \in {"score", "accuracy"}}

C9_State ==
    /\ ~calibration_state.is_complete =>
          /\ results_out = << >>
          /\ ~exit_status.exited
    /\ results_out # << >> <=> exit_status.exited
    /\ exit_status.exited =>
          /\ exit_status = Exited(0)
          /\ calibration_state.is_complete
          /\ Len(results_out) = 4
          /\ results_out[1] = TextLine("Calibration finished. Outputting results...")
          /\ SubSeq(results_out, 2, 4) = ResultsBlock(results_out[3].json)
          /\ ParseJson(results_out[3].json) = calibration_state.collected_metrics
          /\ DOMAIN calibration_state.collected_metrics = AllMetricKeys

\* a call of output_results_and_exit with is_complete true writes the block
\* and exits, and after the exit nothing is written
C9_Step ==
    /\ (calibration_state.is_complete /\ ~exit_status.exited)
          => exit_status' = Exited(0)
    /\ (calibration_state'.is_complete /\ calib_order = "run_first")
          => exit_status' = Exited(0)
    /\ exit_status.exited => results_out' = results_out

\* C9: output_results_and_exit prints nothing while is_complete is false; once
\* is_complete is true its next call prints, after the line "Calibration
\* finished. Outputting results...", the line AIM_TRAINER_RESULTS_START, the
\* JSON of collected_metrics and the line AIM_TRAINER_RESULTS_END, in that
\* order and exactly once, and the process exits with code 0.
C9_ResultsAfterCompletion == [](C9_State) /\ [][C9_Step]_vars

C9_Witness ==
    /\ exit_status = Exited(0)
    /\ calib_order = "output_first"
    /\ results_out[2] = TextLine("AIM_TRAINER_RESULTS_START")
    /\ results_out[3].json[1] = << MetricKey(4, "score"), 100 >>
    /\ results_out[4] = TextLine("AIM_TRAINER_RESULTS_END")

C10_State ==
    /\ calibration_state.current_scenario \in 0..TOTAL_SCENARIOS
    /\ calibration_state.total_scenarios = 5
    /\ calib_hist.expirations = calibration_state.current_scenario
    /\ calibration_state.is_complete <=> calib_hist.expirations = 5
    /\ calibration_state.is_complete =>
          calibration_state.current_scenario = calibration_state.total_scenarios

C10_Step ==
    calibration_state.is_complete =>
        /\ calibration_state' = calibration_state
        /\ calib_hist' = calib_hist

\* C10: under continuing frame ticks the session terminates: is_complete
\* becomes true after exactly 5 expirations of the 30 s scenario timer and
\* stays true, current_scenario then equals total_scenarios and never exceeds
\* it, and once complete run_calibration_scenarios changes nothing.
C10_SessionTerminates ==
    /\ [](C10_State)
    /\ [][C10_Step]_vars
    /\ <>[](calibration_state.is_complete)

\* a frame run after completion: output_results_and_exit comes first in the
\* schedule, so the session was complete for a whole frame before the exit
C10_Witness ==
    /\ calibration_state.is_complete
    /\ calib_hist.expirations = 5
    /\ calibration_state.current_scenario = 5
    /\ calibration_state.scenario_timer.elapsed = CalibScenarioTicks
    /\ calib_order = "output_first"
    /\ ~exit_status.exited

\* ------------------------------------------ missing entities: claims
\* C11 as stated: when the camera, the primary window or the player entity is
\* missing, each system that needs it returns early for the frame without a
\* panic and without changing points, the shot cooldown, the cursor or any
\* target.
C11_Original ==
    /\ panicked = "none"
    /\ (~guard_in.player \/ ~guard_in.camera) =>
          /\ points = guard_in.before.points
          /\ seq_targets = guard_in.before.seq_targets
          /\ shoot_tracker >= guard_in.before.shoot_tracker
    /\ (~guard_in.window \/ ~guard_in.camera) => hit_events = << >>
    /\ (~guard_in.window \/ ~guard_in.player) => cursor = guard_in.before.cursor

\* ------------------------------------------ update_target_movement: claims
Bounded == movement.kind = "Linear" /\ movement.bounds # << >>

C12_Inside ==
    Bounded => \A i \in Axes :
        /\ movement.translation[i] >= movement.bounds[1][i]
        /\ movement.translation[i] <= movement.bounds[2][i]

\* the frame's step on one axis: the target turns around on the axis exactly
\* when the step takes it past a bound, and is then put on that bound; the
\* other axes keep their velocity
C12_Step ==
    Bounded => \A i \in Axes :
        LET to == move_hist'.from[i] + move_hist'.with[i] * move_hist'.delta
            lo == movement.bounds[1][i]
            hi == movement.bounds[2][i]
        IN  /\ move_hist'.from = movement.translation
            /\ to < lo => /\ movement'.translation[i] = lo
                          /\ movement'.velocity[i] = - movement.velocity[i]
            /\ to > hi => /\ movement'.translation[i] = hi
                          /\ movement'.velocity[i] = - movement.velocity[i]
            /\ (to >= lo /\ to <= hi) =>
                          /\ movement'.translation[i] = to
                          /\ movement'.velocity[i] = movement.velocity[i]

\* C12: a Linear target with bounds that starts inside [bounds_min,
\* bounds_max] is inside the bounds at the end of every frame, and when a
\* frame's step crosses a bound only the velocity component of that axis is
\* negated and the position on that axis is clamped to the bound.
C12_StaysInBounds == [](C12_Inside) /\ [][C12_Step]_vars

\* a bounce off the upper bound of the first axis with an overshoot, while
\* the second axis moves on and the third rests
C12_Witness ==
    /\ Bounded
    /\ move_hist.bounces = 1
    /\ move_hist.from = <<1, 0, 1>>
    /\ move_hist.with = <<2, 1, 0>>
    /\ move_hist.delta = 1
    /\ movement.translation = <<MaxCoord, 1, 1>>
    /\ movement.velocity = <<-2, 1, 0>>

\* ------------------------------------------------- live tuning: claims
\* C13 as stated: after any sequence of live-tuning key presses starting from
\* the default parameters, the active profile's max_sens is at least its
\* min_sens.
C13_Original ==
    active_profile.curve_parameters.max_sens >= active_profile.curve_parameters.min_sens

\* ------------------------------------------- sensitivity curve: claims
ValidParams ==
    /\ sens_in.params.max_sens > sens_in.params.min_sens
    /\ sens_in.params.range > 0

InCurveRange(m) ==
    /\ RLe(R(sens_in.params.min_sens), m)
    /\ RLe(m, R(sens_in.params.max_sens))

PastRange(speed) == speed - sens_in.params.offset >= sens_in.params.range

C16_Original == (Phase(scenario_state) = "delay") => seq_targets = 0

\* ------------------------------------------- sequencer: the order of the run
\* the delay timer, the scenario timer finishes in this step
DelayExpires ==
    /\ Phase(scenario_state) = "delay"
    /\ scenario_state'.delay_timer.just

ActiveExpires ==
    /\ Phase(scenario_state) = "active"
    /\ scenario_state'.scenario_timer.just

\* the Active phases run the list in order
C17_State ==
    (Phase(scenario_state) = "active") =>
        /\ scenario_state.current_index < NumScenarios
        /\ scenario_state.current_type = Scenarios[scenario_state.current_index + 1]
        /\ seq_hist.actives = scenario_state.current_index + 1

C17_Step ==
    LET i == scenario_state.current_index IN
    /\ (DelayExpires /\ i < NumScenarios) =>
          /\ Phase(scenario_state') = "active"
          /\ scenario_state'.current_type = Scenarios[i + 1]
          /\ scenario_state'.scenario_timer = NewTimer
          /\ seq_targets' = ScenarioTargetCount(Scenarios[i + 1])
          /\ seq_targets' > 0
    /\ (DelayExpires /\ i = NumScenarios) =>
          /\ Phase(scenario_state') = "idle"
          /\ scenario_state'.current_type = "None"
          /\ seq_targets' = seq_targets
    /\ ActiveExpires => scenario_state'.current_index = i + 1
    /\ ~ActiveExpires => scenario_state'.current_index <= i

\* C17: the scenarios run in the order of the list: when the Delay timer
\* expires with current_index = i < scenarios.len() the sequencer becomes
\* Active with current_type = scenarios[i], a freshly reset scenario timer
\* and that scenario's targets spawned; when it expires with current_index =
\* scenarios.len() nothing is spawned and the sequencer is not started, with
\* current_type = None.  current_index increases by exactly 1 at each Active
\* expiry and at no other step.
C17_ListOrder == [](C17_State) /\ [][C17_Step]_vars

\* the second scenario of the list has just been started
C17_Witness ==
    /\ Phase(scenario_state) = "active"
    /\ scenario_state.current_index = 1
    /\ scenario_state.current_type = Scenarios[2]
    /\ scenario_state.scenario_timer = NewTimer
    /\ scenario_state.delay_timer.just
    /\ seq_targets = ScenarioTargetCount(Scenarios[2])
    /\ seq_hist.actives = 2

\* ------------------------------------------------- camera frame: claims
\* C18: each frame the sensitivity multiplier evaluated from that frame's
\* sampled input speed scales the mouse delta that updates the camera: in a
\* frame that sampled input and moved the camera, the yaw and the pitch
\* turn by the frame's mouse delta times that multiplier.
C18_Original ==
    (cam_hist.sampled /\ cam_hist.moved) =>
        /\ R(cam_hist.turn[1])
              = RMul(R(cam_hist.raw[1]), mouse_buffer.sensitivity_multiplier)
        /\ R(cam_hist.turn[2])
              = RMul(R(cam_hist.raw[2]), mouse_buffer.sensitivity_multiplier)

\* ------------------------------------------ update_target_health: claims
\* the hit events of the call that name entity e
HitsOn(e) == {k \in 1..Len(hit_events) : hit_events[k].target_entity = e}

\* the destroyed events of the call that name entity e
DestroyedOf(e) ==
    {k \in 1..Len(destroyed_events) : destroyed_events[k].target_entity = e}

\* entity e is destroyed: despawned, with one Destroyed event carrying the
\* points of target t and destroyed_by_hit = true
DestroyedWithEvent(e, t) ==
    /\ e \in health_in.despawn
    /\ Cardinality(DestroyedOf(e)) = 1
    /\ \A k \in DestroyedOf(e) :
          destroyed_events[k]
              = [target_entity |-> e, points |-> t.points, destroyed_by_hit |-> TRUE]

StaysAlive(e) ==
    /\ e \notin health_in.despawn
    /\ DestroyedOf(e) = {}

\* C19: when a hit event is processed, a target with destroy_on_hit = true is
\* destroyed at once with a Destroyed event carrying its points and
\* destroyed_by_hit = true, whatever its health; a target with destroy_on_hit
\* = false has its health reduced by the damage and is destroyed, with the
\* same event, if and only if the resulting health is <= 0, and otherwise
\* stays alive with only its health changed.  A target no event names is
\* left as it is.
C19_HealthOnHit ==
    health_in.called =>
        /\ Len(targets) = Len(health_in.before) - Cardinality(health_in.despawn)
        /\ \A e \in DOMAIN health_in.before :
              LET t == health_in.before[e]
                  u == health_in.after[e]
              IN  /\ HitsOn(e) = {} => (u = t /\ StaysAlive(e))
                  /\ \A k \in HitsOn(e) :
                        Cardinality(HitsOn(e)) = 1 =>
                           IF t.destroy_on_hit
                           THEN DestroyedWithEvent(e, t)
                           ELSE /\ u.health = t.health - hit_events[k].damage
                                /\ u = [t EXCEPT !.health = u.health]
                                /\ u.health <= 0 => DestroyedWithEvent(e, t)
                                /\ u.health > 0 => StaysAlive(e)

\* a target of health 2 without destroy_on_hit takes the damage 2 and is
\* destroyed
C19_Witness ==
    /\ health_in.called
    /\ Len(health_in.before) = 2
    /\ health_in.before[2].health = 2
    /\ ~health_in.before[2].destroy_on_hit
    /\ health_in.before[2].points = 2 * DEFAULT_POINTS
    /\ hit_events = << [target_entity |-> 2, damage |-> 2] >>
    /\ health_in.after[2].health = 0
    /\ destroyed_events = << [target_entity |-> 2, points |-> 2 * DEFAULT_POINTS,
                              destroyed_by_hit |-> TRUE] >>
    /\ targets = << health_in.before[1] >>

\* ------------------------------------------ calibration session: the metrics
\* the keys scenario_k_score and scenario_k_accuracy
ScoreKey(k) == <<"scenario", k, "score">>

AccuracyKey(k) == <<"scenario", k, "accuracy">>

\* the map holds exactly the two keys of every scenario that has ended
C20_State ==
    LET m == calibration_state.collected_metrics
        ended == 0..(calibration_state.current_scenario - 1)
    IN  /\ DOMAIN m = {ScoreKey(k) : k \in ended} \cup {AccuracyKey(k) : k \in ended}
        /\ Cardinality(DOMAIN m) = 2 * calibration_state.current_scenario
        /\ calibration_state.is_complete =>
              Cardinality(DOMAIN m) = 2 * calibration_state.total_scenarios

\* the end of scenario k writes its two entries from the ScoreTracker the
\* call read, and no step changes an entry
C20_Step ==
    LET m == calibration_state.collected_metrics
        k == calibration_state.current_scenario
    IN  /\ \A key \in DOMAIN m :
              /\ key \in DOMAIN calibration_state'.collected_metrics
              /\ calibration_state'.collected_metrics[key] = m[key]
        /\ (calib_hist'.expirations # calib_hist.expirations) =>
              /\ calibration_state'.current_scenario = k + 1
              /\ calibration_state'.collected_metrics[ScoreKey(k)]
                    = calib_hist'.read.score
              /\ calibration_state'.collected_metrics[AccuracyKey(k)]
                    = calib_hist'.read.accuracy
        /\ (calib_hist'.expirations = calib_hist.expirations) =>
              calibration_state'.collected_metrics = m

\* C20: when calibration scenario k ends, collected_metrics gains the keys
\* scenario_k_score and scenario_k_accuracy with the score and the accuracy
\* of the ScoreTracker of that frame; in every reachable state the map holds
\* exactly these two keys for each k < current_scenario, 2 * total_scenarios
\* entries at completion, and an entry once written is never overwritten.
C20_Metrics == [](C20_State) /\ [][C20_Step]_vars

\* two scenarios have ended with different scores
C20_Witness ==
    /\ calibration_state.current_scenario = 2
    /\ Cardinality(DOMAIN calibration_state.collected_metrics) = 4
    /\ calibration_state.collected_metrics[ScoreKey(0)]
          # calibration_state.collected_metrics[ScoreKey(1)]
    /\ calibration_state.collected_metrics[ScoreKey(1)] = calib_hist.read.score
    /\ calibration_state.collected_metrics[AccuracyKey(1)] = calib_hist.read.accuracy

\* ------------------------------------------------------------------ C21
\* C21: after update_target_movements has processed a moving target, its
\* position has 5 <= y <= ARENA_HEIGHT - 5, z between -ARENA_DEPTH/2 + 5 and
\* -ARENA_DEPTH/2 + 35, and |x| <= |z| at the z it ends the frame with.
ProcessedByArm ==
    /\ arena_in.frames > 0
    /\ arena_target.pattern = "Evasive" => arena_in.camera.present

C21_Original ==
    ProcessedByArm =>
        /\ ArenaYMin <= arena_target.translation.y
        /\ arena_target.translation.y <= ArenaYMax
        /\ ArenaZMin <= arena_target.translation.z
        /\ arena_target.translation.z <= ArenaZMax
        /\ Abs(arena_target.translation.x) <= Abs(arena_target.translation.z)

\* ------------------------------------------------------------------ C22
\* C22: while the DynamicClicking scenario is active the number of live
\* targets never exceeds 3.
C22_Original ==
    (Phase(scenario_state) = "active"
        /\ scenario_state.current_type = "DynamicClicking")
    => seq_targets <= DynamicMax

\* ------------------------------------------------------------------ C23
\* C23: the TargetDestroyedEvents of a frame name each target entity at most
\* once, also when the entity is hit in the frame its lifetime expires.
C23_Original ==
    \A i, j \in DOMAIN destroyed_events :
        i # j => destroyed_events[i].target_entity # destroyed_events[j].target_entity

\* ------------------------------------------------------------------ C24
\* C24: whenever is_active is set, has_started is set, current_index is below
\* the length of the scenario list and current_type is the scenario at
\* current_index; so the current_type.unwrap() of an active sequencer, in
\* manage_scenarios and in update_scenario_display, finds a value.
C24_ActiveWellFormed ==
    scenario_state.is_active =>
        /\ scenario_state.has_started
        /\ scenario_state.current_index < NumScenarios
        /\ scenario_state.current_type = Scenarios[scenario_state.current_index + 1]
        /\ scenario_state.current_type # "None"

\* the second scenario of the list is active
C24_Witness ==
    /\ scenario_state.is_active
    /\ scenario_state.current_index = 1
    /\ scenario_state.current_type = Scenarios[2]

\* ------------------------------------------------------------------ C25
\* C25: an accepted shot changes Points.value by exactly 1, +1 when the ray
\* hits a target (which is replaced by one new target) and -1 otherwise;
\* Points.value is the target hits less the other accepted shots; a frame
\* without an accepted shot leaves the points and the targets as they were.
C25_State == points = shot_tally.hits - shot_tally.others

C25_Step ==
    /\ shot_tally'.hits > shot_tally.hits =>
          points' = points + 1 /\ seq_targets > 0 /\ seq_targets' = seq_targets
    /\ shot_tally'.others > shot_tally.others =>
          points' = points - 1 /\ seq_targets' = seq_targets
    /\ shot_tally' = shot_tally =>
          points' = points /\ seq_targets' = seq_targets

C25_PointsTally == [](C25_State) /\ [][C25_Step]_vars

\* hits, a shot on the wall and a shot into the void have been accepted
C25_Witness ==
    /\ shot_tally.hits = 2
    /\ shot_tally.others = 2
    /\ click_hist.last = "none"
    /\ shoot_tracker = 0

\* ------------------------------------------------------------------ C26
\* C26: after any sequence of add_profile, remove_profile, set_active_profile
\* and import_profiles the profile "Default" exists and active_profile names
\* an existing profile; add_profile with a name in use, remove_profile of
\* "Default" or of an unknown name and set_active_profile of an unknown name
\* return false and leave the system as it was.
C26_State ==
    /\ "Default" \in DOMAIN calibration_system.profiles
    /\ calibration_system.active_profile \in DOMAIN calibration_system.profiles

C26_Refused ==
    \/ /\ calsys_out'.op \in {"add_profile"}
       /\ calsys_out'.arg \in DOMAIN calibration_system.profiles
    \/ /\ calsys_out'.op = "remove_profile"
       /\ \/ calsys_out'.arg = "Default"
          \/ calsys_out'.arg \notin DOMAIN calibration_system.profiles
    \/ /\ calsys_out'.op = "set_active_profile"
       /\ calsys_out'.arg \notin DOMAIN calibration_system.profiles

C26_Step ==
    C26_Refused => (~calsys_out'.ok /\ calibration_system' = calibration_system)

C26_Profiles == [](C26_State) /\ [][C26_Step]_vars

\* remove_profile("Default") has just been refused while another profile is active
C26_Witness ==
    /\ calsys_out = [op |-> "remove_profile", arg |-> "Default", ok |-> FALSE]
    /\ calibration_system.active_profile = "Custom"

\* ------------------------------------------------------------------ C27
\* C27: while a session is open start_calibration is refused and leaves it as
\* it is; current_step stays within the steps of the session;
\* next_calibration_step on the last step closes the session and appends
\* exactly one CalibrationResult; cancel_calibration closes it and leaves the
\* history unchanged.
SessionOpen == calibration_system.current_calibration.open

OnLastStep ==
    /\ SessionOpen
    /\ calibration_system.current_calibration.current_step
          = Len(calibration_system.current_calibration.steps) - 1

C27_State ==
    SessionOpen =>
        /\ 0 <= calibration_system.current_calibration.current_step
        /\ calibration_system.current_calibration.current_step
              < Len(calibration_system.current_calibration.steps)

C27_Step ==
    /\ (calsys_out'.op = "start_calibration" /\ SessionOpen) =>
          (~calsys_out'.ok /\ calibration_system' = calibration_system)
    /\ (calsys_out'.op = "next_calibration_step" /\ OnLastStep) =>
          /\ ~calibration_system'.current_calibration.open
          /\ Len(calibration_system'.calibration_history)
                = Len(calibration_system.calibration_history) + 1
          /\ SubSeq(calibration_system'.calibration_history, 1,
                    Len(calibration_system.calibration_history))
                = calibration_system.calibration_history
    /\ (calsys_out'.op = "cancel_calibration" /\ SessionOpen) =>
          /\ ~calibration_system'.current_calibration.open
          /\ calibration_system'.calibration_history
                = calibration_system.calibration_history

C27_Session == [](C27_State) /\ [][C27_Step]_vars

\* a Full session has been stepped through to its end
C27_Witness ==
    /\ calsys_out.op = "next_calibration_step"
    /\ ~calsys_out.ok
    /\ ~SessionOpen
    /\ Len(calibration_system.calibration_history) = 1
    /\ calibration_system.calibration_history[1].session_type = "Full"

\* ------------------------------------------------------------------ C28
\* C28: after any sequence of update_curve_parameters, live-tuning key presses
\* and set_from_game the parameters the profile's curve was generated from
\* equal the profile's curve_parameters.
C28_Original == active_profile.curve = active_profile.curve_parameters

\* ------------------------------------------------------------------ C29
\* C29: with the spawner of setup_basic_target_spawner the live targets never
\* exceed max_targets; a frame of update_target_spawners spawns at most one
\* target, and only when the spawn timer has just finished (it is reset) and
\* the targets it counts are fewer than max_targets.
DespawnedInStep == {destroyed_events'[i].target_entity : i \in DOMAIN destroyed_events'}

SpawnedInStep == Len(targets') - (Len(targets) - Cardinality(DespawnedInStep))

C29_State == Len(targets) <= MAX_TARGETS

C29_Step ==
    /\ SpawnedInStep \in {0, 1}
    /\ SpawnedInStep = 1 =>
          /\ spawner' = TimerReset(spawner)
          /\ \E delta \in 0..MaxTargetDelta :
                RepeatingTick(spawner, delta, SPAWN_PERIOD).just
          /\ IF schedule.spawnLate
             THEN Len(targets) - Cardinality(DespawnedInStep) < MAX_TARGETS
             ELSE Len(targets) < MAX_TARGETS

C29_SpawnerCap == [](C29_State) /\ [][C29_Step]_vars

\* the timer has finished in a full world: nothing was spawned, the timer
\* was not reset, and the oldest target has expired
C29_Witness ==
    /\ spawner.just
    /\ Len(targets) = MAX_TARGETS - 1
    /\ Len(destroyed_events) = 1

\* ------------------------------------------------------------------ C30
\* C30: samples never holds more than max_samples entries and holds them in
\* arrival order: a frame appends one sample per event read, in the order of
\* the events, and drops from the front exactly as many of the oldest as the
\* buffer would otherwise exceed max_samples by; a frame of zero delta adds
\* no sample.
C30_State == Len(mouse_buffer.samples) <= MAX_SAMPLES

C30_Step ==
    buffer_in'.frames > buffer_in.frames =>
        LET old == mouse_buffer.samples
            new == mouse_buffer'.samples
            read == buffer_in'.read
            k == Len(read)
            evicted == IF Len(old) + k > MAX_SAMPLES
                       THEN Len(old) + k - MAX_SAMPLES ELSE 0
        IN  /\ buffer_in'.delta_seconds = 0 => new = old
            /\ Len(new) = Len(old) + k - evicted
            /\ \A i \in 1..(Len(old) - evicted) : new[i] = old[i + evicted]
            /\ \A i \in 1..k :
                  new[Len(new) - k + i]
                     = Sample(read[i], mouse_buffer.sensitivity_multiplier,
                              buffer_in'.delta_seconds)

C30_Buffer == [](C30_State) /\ [][C30_Step]_vars

\* a full buffer has taken two more samples in one frame
C30_Witness ==
    /\ Len(mouse_buffer.samples) = MAX_SAMPLES
    /\ Len(buffer_in.read) = 2
    /\ buffer_in.frames = 2
    /\ mouse_buffer.samples[MAX_SAMPLES].delta # mouse_buffer.samples[MAX_SAMPLES - 1].delta

=============================================================================
